---- MODULE Spec2Model ----
(***************************************************************************)
(* A model of the agfs-shell registries: the alias registry with its       *)
(* recursive, cycle-safe expansion, and the variable manager / command     *)
(* context with their stacks of local scopes.                              *)
(*                                                                         *)
(* A command line is a sequence of one-character strings, so that          *)
(* str.split can be modelled by what it does to whitespace.  Variable      *)
(* names and values are strings; "_local_" \o n is the f-string            *)
(* f"_local_{n}" of the source.                                            *)
(***************************************************************************)
EXTENDS Integers, Sequences, FiniteSets, TLC

VARIABLES
    _aliases,       \* AliasRegistry._aliases: alias name -> expansion
    alias_call,     \* the expand call that has just returned, or NoCall
    env,            \* VariableManager.env
    local_scopes,   \* VariableManager.local_scopes (innermost = last)
    ctx_env,        \* CommandContext.env
    ctx_scopes,     \* CommandContext.local_scopes (innermost = last)
    last,           \* outcome of the call that has just returned
    marks,          \* per open scope: what get returned when it was pushed
    last_code,      \* the code last passed to set_exit_code (0 before any)
    q_written,      \* "?" itself was the target of set, unset or export
    _functions,     \* FunctionRegistry._functions: name -> FunctionDefinition
    fn_call,        \* the FunctionRegistry call that has just returned, or NoCall
    log,            \* the define / delete / clear calls made so far, in order
    cwd,            \* PathManager.cwd
    chroot_root,    \* PathManager.chroot_root
    path_call,      \* the PathManager call that has just returned, or NoCall
    proc,           \* a Process: its executor, exit_code and stderr buffer
    proc_call,      \* the execute call that has just ended, or NoCall
    err,            \* the exception object constructed last, or NoCall
    expand_call,    \* the expand_variables call that has just returned, or NoCall
    since_empty     \* env when the scope stack was last empty, and what was done since

vars == <<_aliases, alias_call, env, local_scopes, ctx_env, ctx_scopes, last, marks, last_code, q_written,
          _functions, fn_call, log, cwd, chroot_root, path_call, proc, proc_call, err, expand_call, since_empty>>

alias_vars == <<_aliases, alias_call>>

var_vars == <<env, local_scopes, ctx_env, ctx_scopes, last, marks, last_code, q_written>>

fn_vars == <<_functions, fn_call>>

path_vars == <<cwd, chroot_root, path_call>>

proc_vars == <<proc, proc_call>>

\* everything but the alias registry, everything but the variables,
\* everything but the two registries and their log
non_alias_vars == <<var_vars, fn_vars, log, path_vars, proc_vars, err, expand_call, since_empty>>

non_var_vars == <<alias_vars, fn_vars, log, path_vars, proc_vars, err, expand_call, since_empty>>

non_reg_vars == <<var_vars, path_vars, proc_vars, err, expand_call, since_empty>>

-----------------------------------------------------------------------------
(* Bounds of the model *)

MaxExpLen == 3      \* longest alias expansion that define() is given
MaxCmdLen == 3      \* longest command line that expand() is given
MaxDepthArg == 1    \* explicit max_depth arguments are 0..MaxDepthArg
MaxScopes == 2      \* deepest stack of local scopes

DefaultMaxDepth == 10

-----------------------------------------------------------------------------
(* Dictionaries: a dict is a function whose DOMAIN is its key set *)

EmptyDict == << >>

DictSet(d, k, v) == [x \in (DOMAIN d) \cup {k} |-> IF x = k THEN v ELSE d[x]]

DictDel(d, k) == [x \in (DOMAIN d) \ {k} |-> d[x]]

DictUpdate(d, e) == [x \in (DOMAIN d) \cup (DOMAIN e) |-> IF x \in DOMAIN e THEN e[x] ELSE d[x]]

-----------------------------------------------------------------------------
(* Strings as character sequences, and str.split(None, 1) *)

Chars == {"a", "b", " "}

IsSpace(c) == c = " "

StrsUpTo(n) == UNION {[1..k -> Chars] : k \in 0..n}

RECURSIVE lstrip(_)
lstrip(s) == IF s # << >> /\ IsSpace(Head(s)) THEN lstrip(Tail(s)) ELSE s

RECURSIVE WordLen(_)
WordLen(s) == IF s = << >> \/ IsSpace(Head(s)) THEN 0 ELSE 1 + WordLen(Tail(s))

\* command.strip() is empty
IsBlank(s) == \A i \in 1..Len(s) : IsSpace(s[i])

\* command.split(None, 1): no part, the first word, or the first word and
\* the text that follows the whitespace after it
split1(s) ==
    LET t == lstrip(s)
        n == WordLen(t)
        r == lstrip(SubSeq(t, n + 1, Len(t)))
    IN  IF t = << >> THEN << >>
        ELSE IF r = << >> THEN << SubSeq(t, 1, n) >>
        ELSE << SubSeq(t, 1, n), r >>

-----------------------------------------------------------------------------
(* AliasRegistry *)

NoCall == [op |-> "none"]

AliasNames == {<<"a">>, <<"b">>}

Expansions == StrsUpTo(MaxExpLen)

Commands == StrsUpTo(MaxCmdLen)

DepthArgs == (0..MaxDepthArg) \cup {DefaultMaxDepth}

\* The outcome of an expansion: the string returned, the alias names that
\* were substituted (in order), and the exception raised, if any.
Returned(s, names) == [out |-> s, subs |-> names, exc |-> "none"]

\* a faulty variant: one level too deep
DepthLimitOffByOne(depth, max_depth) == depth > max_depth

\* if depth >= max_depth: return command
DepthLimitReached(depth, max_depth) == depth >= max_depth

\* a faulty variant: no cycle detection
SeenNever(cmd, seen) == FALSE

\* if cmd in seen
SeenBefore(cmd, seen) == cmd \in seen

\* a faulty variant: a cycle is an error
OnCycleRaise(command, done) == [out |-> << >>, subs |-> done, exc |-> "RecursionError"]

\* a cycle is found: return command
OnCycle(command, done) == Returned(command, done)

\* a faulty variant: the remainder comes first
WithRestSwapped(expanded, rest) == IF rest # << >> THEN rest \o <<" ">> \o expanded ELSE expanded

\* a faulty variant: the remainder is lost
WithRestDropped(expanded, rest) == expanded

\* expanded + (" " + rest if rest else "")
WithRest(expanded, rest) == IF rest # << >> THEN expanded \o <<" ">> \o rest ELSE expanded

RECURSIVE _expand_recursive(_, _, _, _, _)
_expand_recursive(command, seen, depth, max_depth, done) ==
    LET parts == split1(command)
        cmd == parts[1]
        rest == IF Len(parts) > 1 THEN parts[2] ELSE << >>
    IN  IF DepthLimitReached(depth, max_depth) THEN Returned(command, done)
        ELSE IF parts = << >> THEN Returned(command, done)
        ELSE IF cmd \notin DOMAIN _aliases THEN Returned(command, done)
        ELSE IF SeenBefore(cmd, seen) THEN OnCycle(command, done)
        ELSE LET expansion == _aliases[cmd]
                 new_seen == seen \cup {cmd}
                 expanded == _expand_recursive(expansion, new_seen, depth + 1,
                                               max_depth, Append(done, cmd))
             IN  IF expanded.exc # "none" THEN expanded
                 ELSE [expanded EXCEPT !.out = WithRest(expanded.out, rest)]

\* a faulty variant: the recursive flag is ignored
AlwaysRecursive(command, recursive, max_depth) ==
    LET parts == split1(command)
    IN  IF command = << >> \/ IsBlank(command) THEN Returned(command, << >>)
        ELSE IF parts[1] \notin DOMAIN _aliases THEN Returned(command, << >>)
        ELSE _expand_recursive(command, {}, 0, max_depth, << >>)

AliasRegistry_expand(command, recursive, max_depth) ==
    LET parts == split1(command)
        cmd == parts[1]
        rest == IF Len(parts) > 1 THEN parts[2] ELSE << >>
    IN  IF command = << >> \/ IsBlank(command) THEN Returned(command, << >>)
        ELSE IF parts = << >> THEN Returned(command, << >>)
        ELSE IF cmd \notin DOMAIN _aliases THEN Returned(command, << >>)
        ELSE IF ~recursive THEN Returned(WithRest(_aliases[cmd], rest), <<cmd>>)
        ELSE _expand_recursive(command, {}, 0, max_depth, << >>)

\* a faulty variant: an existing alias keeps its first expansion
DefineKeepsFirst(name, expansion) ==
    /\ alias_call = NoCall
    /\ _aliases' = IF name \in DOMAIN _aliases THEN _aliases ELSE DictSet(_aliases, name, expansion)
    /\ UNCHANGED alias_call

define(name, expansion) ==
    /\ alias_call = NoCall
    /\ _aliases' = DictSet(_aliases, name, expansion)
    /\ UNCHANGED alias_call

delete(name) ==
    /\ alias_call = NoCall
    /\ _aliases' = IF name \in DOMAIN _aliases THEN DictDel(_aliases, name) ELSE _aliases
    /\ UNCHANGED alias_call

clear ==
    /\ alias_call = NoCall
    /\ _aliases' = EmptyDict
    /\ UNCHANGED alias_call

\* expand(command, recursive, max_depth) is called and returns
expand(command, recursive, max_depth) ==
    /\ alias_call = NoCall
    /\ alias_call' = [op |-> "expand", command |-> command, recursive |-> recursive,
                      max_depth |-> max_depth,
                      ret |-> AliasRegistry_expand(command, recursive, max_depth)]
    /\ UNCHANGED _aliases

\* the caller takes the returned string; the registry is ready for the next call
expand_done ==
    /\ alias_call # NoCall
    /\ alias_call' = NoCall
    /\ UNCHANGED _aliases

Define == \E name \in AliasNames, expansion \in Expansions : define(name, expansion) /\ UNCHANGED non_alias_vars

Delete == \E name \in AliasNames : delete(name) /\ UNCHANGED non_alias_vars

Clear == clear /\ UNCHANGED non_alias_vars

Expand == \E command \in Commands, max_depth \in DepthArgs : expand(command, TRUE, max_depth) /\ UNCHANGED non_alias_vars

ExpandOnce == \E command \in Commands : expand(command, FALSE, DefaultMaxDepth) /\ UNCHANGED non_alias_vars

ExpandDone == expand_done /\ UNCHANGED non_alias_vars

\* Optional results and arguments: Nothing is Python's None
Nothing == [some |-> FALSE]

Some(x) == [some |-> TRUE, v |-> x]

FuncsIdle == _functions = EmptyDict /\ fn_call = NoCall

LogIdle == log = << >>

PathIdle == cwd = <<"/">> /\ chroot_root = Nothing /\ path_call = NoCall

ProcIdle ==
    /\ proc = [command |-> "c", executor |-> FALSE, exit_code |-> 0, stderr |-> << >>]
    /\ proc_call = NoCall

ErrIdle == err = NoCall

ExpandIdle == expand_call = NoCall

\* the scope stack is empty and nothing has been done since
BaseIdle == since_empty = [env |-> env, clean |-> TRUE, written |-> {}]

VarsIdle ==
    /\ env = EmptyDict
    /\ local_scopes = << >>
    /\ ctx_env = EmptyDict
    /\ ctx_scopes = << >>
    /\ last = [exc |-> "none", ctx_exc |-> "none", mark |-> [clean |-> FALSE]]
    /\ marks = << >>
    /\ last_code = 0
    /\ q_written = FALSE

AliasInit ==
    /\ _aliases = EmptyDict
    /\ alias_call = NoCall
    /\ VarsIdle
    /\ FuncsIdle
    /\ LogIdle
    /\ PathIdle
    /\ ProcIdle
    /\ ErrIdle
    /\ ExpandIdle
    /\ BaseIdle

AliasNext ==
    \/ Define
    \/ Delete
    \/ Clear
    \/ Expand
    \/ ExpandOnce
    \/ ExpandDone

SpecAlias == AliasInit /\ [][AliasNext]_vars

-----------------------------------------------------------------------------
(* Properties of AliasRegistry.expand *)

Returning == alias_call # NoCall

FirstWord(s) == split1(s)[1]

ArgsOf(s) == IF Len(split1(s)) > 1 THEN split1(s)[2] ELSE << >>

StartsWithAlias(s) == split1(s) # << >> /\ FirstWord(s) \in DOMAIN _aliases

Occurs(x, seq) == \E i \in 1..Len(seq) : seq[i] = x

NoRepeat(seq) == \A i, j \in 1..Len(seq) : seq[i] = seq[j] => i = j

\* a, then " " and b when b is not empty
JoinSp(a, b) == IF b = << >> THEN a ELSE a \o <<" ">> \o b

\* The alias chain of a command: the alias names met by following first
\* words, up to the first non-alias or the first repetition.
RECURSIVE ChainFrom(_, _)
ChainFrom(s, names) ==
    IF ~StartsWithAlias(s) THEN [names |-> names, cyclic |-> FALSE]
    ELSE IF Occurs(FirstWord(s), names) THEN [names |-> names, cyclic |-> TRUE]
    ELSE ChainFrom(_aliases[FirstWord(s)], Append(names, FirstWord(s)))

Chain(command) == ChainFrom(command, << >>)

\* The string after exactly k substitutions along the chain: the expansion
\* of the k-th alias, then the arguments of the expansions of the aliases
\* k-1, ..., 1, then the arguments of the command.
RECURSIVE AppendArgs(_, _, _, _)
AppendArgs(acc, names, i, command) ==
    IF i = 0 THEN JoinSp(acc, ArgsOf(command))
    ELSE AppendArgs(JoinSp(acc, ArgsOf(_aliases[names[i]])), names, i - 1, command)

AfterSubstitutions(command, k) ==
    IF k = 0 THEN command
    ELSE AppendArgs(_aliases[Chain(command).names[k]], Chain(command).names, k - 1, command)

CycleAB == (<<"a">> :> <<"b">>) @@ (<<"b">> :> <<"a">>)

\* C1: a recursive expand with the default max_depth returns a string and
\* raises nothing, whatever the registry holds, after at most max_depth
\* substitutions; with a -> "b" and b -> "a", expand("a") is "a" or "b".
C1_ExpandReturns ==
    (Returning /\ alias_call.recursive /\ alias_call.max_depth = DefaultMaxDepth) =>
        /\ alias_call.ret.exc = "none"
        /\ alias_call.ret.out \in Seq(Chars)
        /\ Len(alias_call.ret.subs) <= DefaultMaxDepth
        /\ (_aliases = CycleAB /\ alias_call.command = <<"a">>) =>
               alias_call.ret.out \in {<<"a">>, <<"b">>}

C1_Witness ==
    /\ Returning
    /\ alias_call.recursive
    /\ alias_call.max_depth = DefaultMaxDepth
    /\ _aliases = CycleAB
    /\ alias_call.command = <<"a">>
    /\ alias_call.ret.out = <<"a">>

\* C2: for an acyclic chain of n aliases, n < max_depth, recursive expand
\* returns the expansion of the last alias, then the arguments of the
\* expansions of the aliases n-1, ..., 1, then the command's arguments,
\* each joined by one space.
C2_ChainExpansion ==
    (Returning /\ alias_call.recursive) =>
        LET ch == Chain(alias_call.command)
        IN  (~ch.cyclic /\ Len(ch.names) >= 1 /\ Len(ch.names) < alias_call.max_depth) =>
                /\ alias_call.ret.out = AfterSubstitutions(alias_call.command, Len(ch.names))
                /\ alias_call.ret.subs = ch.names

C2_Witness ==
    /\ Returning
    /\ alias_call.recursive
    /\ ~Chain(alias_call.command).cyclic
    /\ Len(Chain(alias_call.command).names) = 2
    /\ alias_call.max_depth > 2
    /\ ArgsOf(alias_call.command) # << >>
    /\ ArgsOf(_aliases[FirstWord(alias_call.command)]) # << >>
    /\ alias_call.ret.out # alias_call.command

\* C3: expand replaces only the first word: a command whose first word is
\* no alias (or that is empty or blank) is returned unchanged; otherwise
\* the result is what expanding the first word alone gives, followed by
\* the remainder of the command, which no alias definition changes.
C3_FirstWordOnly ==
    Returning =>
        LET c == alias_call.command
        IN  /\ ~StartsWithAlias(c) => alias_call.ret.out = c
            /\ StartsWithAlias(c) =>
                   /\ alias_call.ret.out =
                          IF alias_call.recursive /\ alias_call.max_depth = 0 THEN c
                          ELSE JoinSp(AliasRegistry_expand(FirstWord(c), alias_call.recursive,
                                                           alias_call.max_depth).out,
                                      ArgsOf(c))
                   /\ Len(alias_call.ret.out) >= Len(ArgsOf(c))
                   /\ SubSeq(alias_call.ret.out,
                             Len(alias_call.ret.out) - Len(ArgsOf(c)) + 1,
                             Len(alias_call.ret.out)) = ArgsOf(c)

C3_Witness ==
    /\ Returning
    /\ StartsWithAlias(alias_call.command)
    /\ ArgsOf(alias_call.command) \in DOMAIN _aliases
    /\ alias_call.max_depth > 0
    /\ alias_call.ret.out # alias_call.command

\* C4: expand(command, recursive=False) substitutes exactly one alias: the
\* result is the expansion of the first word followed by the remainder,
\* also when the expansion itself starts with an alias.
C4_NonRecursiveOneLevel ==
    (Returning /\ ~alias_call.recursive /\ StartsWithAlias(alias_call.command)) =>
        /\ alias_call.ret.out = JoinSp(_aliases[FirstWord(alias_call.command)],
                                       ArgsOf(alias_call.command))
        /\ alias_call.ret.subs = << FirstWord(alias_call.command) >>

C4_Witness ==
    /\ Returning
    /\ ~alias_call.recursive
    /\ StartsWithAlias(alias_call.command)
    /\ StartsWithAlias(_aliases[FirstWord(alias_call.command)])
    /\ FirstWord(_aliases[FirstWord(alias_call.command)]) # FirstWord(alias_call.command)
    /\ StartsWithAlias(alias_call.ret.out)

\* C5: a recursive expand substitutes at most max_depth aliases and raises
\* nothing; on a chain longer than max_depth it returns the string reached
\* after max_depth substitutions.
C5_DepthCap ==
    (Returning /\ alias_call.recursive) =>
        /\ Len(alias_call.ret.subs) <= alias_call.max_depth
        /\ alias_call.ret.exc = "none"
        /\ LET ch == Chain(alias_call.command)
           IN  Len(ch.names) > alias_call.max_depth =>
                   /\ alias_call.ret.subs = SubSeq(ch.names, 1, alias_call.max_depth)
                   /\ alias_call.ret.out =
                          AfterSubstitutions(alias_call.command, alias_call.max_depth)

C5_Witness ==
    /\ Returning
    /\ alias_call.recursive
    /\ alias_call.max_depth = 1
    /\ Len(Chain(alias_call.command).names) = 2
    /\ Len(alias_call.ret.subs) = 1
    /\ StartsWithAlias(alias_call.ret.out)

\* C6: a recursive expand substitutes no alias name twice: when the first
\* word of an intermediate string is an alias already substituted, that
\* string is returned; a self-referential alias is substituted once.
C6_NoRepeatedSubstitution ==
    (Returning /\ alias_call.recursive) =>
        /\ NoRepeat(alias_call.ret.subs)
        /\ LET ch == Chain(alias_call.command)
           IN  (ch.cyclic /\ Len(ch.names) <= alias_call.max_depth) =>
                   /\ alias_call.ret.subs = ch.names
                   /\ alias_call.ret.out = AfterSubstitutions(alias_call.command, Len(ch.names))

C6_Witness ==
    /\ Returning
    /\ alias_call.recursive
    /\ alias_call.max_depth = DefaultMaxDepth
    /\ alias_call.command = <<"a", " ", "b">>
    /\ <<"a">> \in DOMAIN _aliases
    /\ _aliases[<<"a">>] = <<"a", " ", "a">>
    /\ alias_call.ret.subs = << <<"a">> >>
    /\ alias_call.ret.out = <<"a", " ", "a", " ", "b">>

-----------------------------------------------------------------------------
(* VariableManager and CommandContext *)

\* Python's None where a string or None is expected
None == "<None>"

ScopeNames == {"x", "_function_depth"}

ExitNames == {"?"}

Values == {"1", "2"}

Defaults == {None, "", "d"}

ExitCodes == {0, 1, 127}

\* initial_env of the constructor; None and {} are both falsy
InitialEnvs == {EmptyDict, "?" :> "7", "x" :> "1"}

DefaultHistfile == "~/.agfs_shell_history"

Digit(d) == CASE d = 0 -> "0" [] d = 1 -> "1" [] d = 2 -> "2" [] d = 3 -> "3" [] d = 4 -> "4"
              [] d = 5 -> "5" [] d = 6 -> "6" [] d = 7 -> "7" [] d = 8 -> "8" [] d = 9 -> "9"

\* str(code) of an int
RECURSIVE str(_)
str(n) ==
    IF n < 0 THEN "-" \o str(0 - n)
    ELSE IF n < 10 THEN Digit(n)
    ELSE str(n \div 10) \o Digit(n % 10)

\* f"_local_{var_name}"
LocalKey(var_name) == "_local_" \o var_name

\* self.env.get(key) is truthy: present and not the empty string
Truthy(d, key) == key \in DOMAIN d /\ d[key] # ""

\* for scope in reversed(local_scopes): if name in scope: return scope[name]
RECURSIVE ScanScopes(_, _, _)
ScanScopes(scopes, i, name) ==
    IF i = 0 THEN [found |-> FALSE, value |-> None]
    ELSE IF name \in DOMAIN scopes[i] THEN [found |-> TRUE, value |-> scopes[i][name]]
    ELSE ScanScopes(scopes, i - 1, name)

\* a faulty variant: initial_env is applied after "?" is initialised
InitLetsInitialEnvWin(initial_env) ==
    LET e1 == "?" :> "0"
        e2 == IF initial_env # EmptyDict THEN DictUpdate(e1, initial_env) ELSE e1
    IN  IF "HISTFILE" \in DOMAIN e2 THEN e2 ELSE DictSet(e2, "HISTFILE", DefaultHistfile)

\* VariableManager.__init__: the env it builds
VariableManager_init(initial_env) ==
    LET e1 == IF initial_env # EmptyDict THEN DictUpdate(EmptyDict, initial_env) ELSE EmptyDict
        e2 == DictSet(e1, "?", "0")
    IN  IF "HISTFILE" \in DOMAIN e2 THEN e2 ELSE DictSet(e2, "HISTFILE", DefaultHistfile)

VariableManager_get(self, var_name, default) ==
    LET local_key == LocalKey(var_name)
        hit == ScanScopes(self.local_scopes, Len(self.local_scopes), var_name)
    IN  IF Truthy(self.env, "_function_depth") /\ local_key \in DOMAIN self.env
            THEN self.env[local_key]
        ELSE IF hit.found THEN hit.value
        ELSE IF var_name \in DOMAIN self.env THEN self.env[var_name]
        ELSE IF default = None \/ default = "" THEN "" ELSE default

VariableManager_set(self, var_name, value, local) ==
    LET n == Len(self.local_scopes)
        local_key == LocalKey(var_name)
    IN  IF local /\ n > 0
            THEN [env |-> DictSet(self.env, local_key, value),
                  local_scopes |-> [self.local_scopes EXCEPT ![n] = DictSet(@, var_name, value)]]
        ELSE IF Truthy(self.env, "_function_depth") /\ local_key \in DOMAIN self.env
            THEN [self EXCEPT !.env = DictSet(self.env, local_key, value)]
        ELSE [self EXCEPT !.env = DictSet(self.env, var_name, value)]

VariableManager_unset(self, var_name) ==
    [env |-> [k \in (DOMAIN self.env) \ {var_name, LocalKey(var_name)} |-> self.env[k]],
     local_scopes |-> [i \in 1..Len(self.local_scopes) |->
                          IF var_name \in DOMAIN self.local_scopes[i]
                          THEN DictDel(self.local_scopes[i], var_name)
                          ELSE self.local_scopes[i]]]

VariableManager_push_scope(self) ==
    [self EXCEPT !.local_scopes = Append(self.local_scopes, EmptyDict)]

\* a faulty variant: popping with no scope is a silent no-op
PopScopeSilentOnEmpty(self) ==
    IF self.local_scopes = << >> THEN [self |-> self, ret |-> EmptyDict, exc |-> "none"]
    ELSE LET n == Len(self.local_scopes)
             scope == self.local_scopes[n]
         IN  [self |-> [env |-> [k \in (DOMAIN self.env) \ {LocalKey(v) : v \in DOMAIN scope}
                                    |-> self.env[k]],
                        local_scopes |-> SubSeq(self.local_scopes, 1, n - 1)],
              ret |-> scope, exc |-> "none"]

\* pop_scope: the manager afterwards, the scope returned, the exception raised
VariableManager_pop_scope(self) ==
    IF self.local_scopes = << >> THEN [self |-> self, ret |-> None, exc |-> "IndexError"]
    ELSE LET n == Len(self.local_scopes)
             scope == self.local_scopes[n]
         IN  [self |-> [env |-> [k \in (DOMAIN self.env) \ {LocalKey(v) : v \in DOMAIN scope}
                                    |-> self.env[k]],
                        local_scopes |-> SubSeq(self.local_scopes, 1, n - 1)],
              ret |-> scope, exc |-> "none"]

VariableManager_set_exit_code(self, code) ==
    [self EXCEPT !.env = DictSet(self.env, "?", str(code))]

VariableManager_export(self, var_name, value) ==
    IF value # None THEN [self EXCEPT !.env = DictSet(self.env, var_name, value)]
    ELSE IF var_name \notin DOMAIN self.env THEN [self EXCEPT !.env = DictSet(self.env, var_name, "")]
    ELSE self

VariableManager_has_variable(self, var_name) ==
    \/ ScanScopes(self.local_scopes, Len(self.local_scopes), var_name).found
    \/ var_name \in DOMAIN self.env
    \/ LocalKey(var_name) \in DOMAIN self.env

\* result.update(scope) for the scopes i..Len(scopes), outermost first
RECURSIVE OverlayScopes(_, _, _)
OverlayScopes(result, scopes, i) ==
    IF i > Len(scopes) THEN result
    ELSE OverlayScopes(DictUpdate(result, scopes[i]), scopes, i + 1)

\* a faulty variant: the scopes are overlaid innermost first
OverlayInnermostFirst(self) ==
    LET n == Len(self.local_scopes)
        rev == [i \in 1..n |-> self.local_scopes[n + 1 - i]]
    IN  [self |-> self, ret |-> OverlayScopes(self.env, rev, 1)]

\* get_all_variables: the manager afterwards and the dict returned
VariableManager_get_all_variables(self) ==
    [self |-> self, ret |-> OverlayScopes(self.env, self.local_scopes, 1)]

\* CommandContext: env and local_scopes
CommandContext_get_variable(self, name) ==
    LET hit == ScanScopes(self.local_scopes, Len(self.local_scopes), name)
    IN  IF hit.found THEN hit.value
        ELSE IF name \in DOMAIN self.env THEN self.env[name]
        ELSE None

\* a faulty variant: local=True is ignored
SetVariableAlwaysGlobal(self, name, value, local) ==
    [self EXCEPT !.env = DictSet(self.env, name, value)]

CommandContext_set_variable(self, name, value, local) ==
    LET n == Len(self.local_scopes)
    IN  IF local /\ n > 0
            THEN [self EXCEPT !.local_scopes[n] = DictSet(@, name, value)]
        ELSE [self EXCEPT !.env = DictSet(self.env, name, value)]

CommandContext_push_local_scope(self) ==
    [self EXCEPT !.local_scopes = Append(self.local_scopes, EmptyDict)]

CommandContext_pop_local_scope(self) ==
    IF self.local_scopes # << >>
        THEN [self EXCEPT !.local_scopes = SubSeq(self.local_scopes, 1, Len(self.local_scopes) - 1)]
    ELSE self

\* The manager and the context are two objects that receive the same calls:
\* set, push and pop go to both, unset, export and set_exit_code to the
\* manager alone.
vm == [env |-> env, local_scopes |-> local_scopes]

ctx == [env |-> ctx_env, local_scopes |-> ctx_scopes]

BecomesVm(new) == env' = new.env /\ local_scopes' = new.local_scopes

BecomesCtx(new) == ctx_env' = new.env /\ ctx_scopes' = new.local_scopes

\* what get returns for each of the names, in both objects
Visible(names) ==
    [clean |-> TRUE, set |-> {},
     vm |-> [n \in names |-> VariableManager_get(vm, n, None)],
     ctx |-> [n \in names |-> CommandContext_get_variable(ctx, n)]]

Dirty == [clean |-> FALSE]

NoOutcome == [exc |-> "none", ctx_exc |-> "none", mark |-> Dirty]

AllDirty == [i \in 1..Len(marks) |-> Dirty]

\* set(var_name, value, local) on the manager, set_variable on the context
Set(var_name, value, local) ==
    /\ BecomesVm(VariableManager_set(vm, var_name, value, local))
    /\ BecomesCtx(CommandContext_set_variable(ctx, var_name, value, local))
    /\ last' = NoOutcome
    /\ marks' = IF local /\ local_scopes # << >>
                THEN [i \in 1..Len(marks) |->
                         IF i = Len(marks) /\ marks[i].clean
                         THEN [marks[i] EXCEPT !.set = @ \cup {var_name}]
                         ELSE Dirty]
                ELSE AllDirty
    /\ q_written' = (q_written \/ (var_name = "?" /\ ~(local /\ local_scopes # << >>)))
    /\ UNCHANGED last_code

Unset(var_name) ==
    /\ BecomesVm(VariableManager_unset(vm, var_name))
    /\ last' = NoOutcome
    /\ marks' = AllDirty
    /\ q_written' = (q_written \/ var_name = "?")
    /\ UNCHANGED <<ctx_env, ctx_scopes, last_code>>

Export(var_name, value) ==
    /\ BecomesVm(VariableManager_export(vm, var_name, value))
    /\ last' = NoOutcome
    /\ marks' = AllDirty
    /\ q_written' = (q_written \/ (var_name = "?" /\ value # None))
    /\ UNCHANGED <<ctx_env, ctx_scopes, last_code>>

PushScope(names) ==
    /\ Len(local_scopes) < MaxScopes
    /\ BecomesVm(VariableManager_push_scope(vm))
    /\ BecomesCtx(CommandContext_push_local_scope(ctx))
    /\ last' = NoOutcome
    /\ marks' = Append(AllDirty, Visible(names))
    /\ UNCHANGED <<last_code, q_written>>

PopScope ==
    /\ BecomesVm(VariableManager_pop_scope(vm).self)
    /\ BecomesCtx(CommandContext_pop_local_scope(ctx))
    /\ last' = [exc |-> VariableManager_pop_scope(vm).exc, ctx_exc |-> "none",
                mark |-> IF marks # << >> THEN marks[Len(marks)] ELSE Dirty]
    /\ marks' = IF marks # << >> THEN SubSeq(marks, 1, Len(marks) - 1) ELSE marks
    /\ UNCHANGED <<last_code, q_written>>

SetExitCode(code) ==
    /\ BecomesVm(VariableManager_set_exit_code(vm, code))
    /\ last' = NoOutcome
    /\ marks' = AllDirty
    /\ last_code' = code
    /\ UNCHANGED <<ctx_env, ctx_scopes, q_written>>

AliasIdle == _aliases = EmptyDict /\ alias_call = NoCall

VarSet(names) == \E n \in names, v \in Values, local \in BOOLEAN : Set(n, v, local) /\ UNCHANGED non_var_vars

VarUnset(names) == \E n \in names : Unset(n) /\ UNCHANGED non_var_vars

VarExport(names) == \E n \in names, v \in Values \cup {None} : Export(n, v) /\ UNCHANGED non_var_vars

VarPush(names) == PushScope(names) /\ UNCHANGED non_var_vars

VarPop == PopScope /\ UNCHANGED non_var_vars

VarSetExitCode == \E code \in ExitCodes : SetExitCode(code) /\ UNCHANGED non_var_vars

VarsInit ==
    /\ AliasIdle
    /\ FuncsIdle
    /\ LogIdle
    /\ PathIdle
    /\ ProcIdle
    /\ ErrIdle
    /\ ExpandIdle
    /\ \E initial_env \in InitialEnvs : env = VariableManager_init(initial_env)
    /\ local_scopes = << >>
    /\ ctx_env = EmptyDict
    /\ ctx_scopes = << >>
    /\ last = NoOutcome
    /\ marks = << >>
    /\ last_code = 0
    /\ q_written = FALSE
    /\ BaseIdle

\* the scoped variables: a variable x, inside or outside a function
VarsNext ==
    \/ VarSet(ScopeNames)
    \/ VarUnset(ScopeNames)
    \/ VarExport(ScopeNames)
    \/ VarPush(ScopeNames)
    \/ VarPop

SpecVars == VarsInit /\ [][VarsNext]_vars

\* the exit code: the special variable "?" and every operation that may touch it
ExitNext ==
    \/ VarSet(ExitNames)
    \/ VarUnset(ExitNames)
    \/ VarExport(ExitNames)
    \/ VarPush(ExitNames)
    \/ VarPop
    \/ VarSetExitCode

SpecExit == VarsInit /\ [][ExitNext]_vars

\* a variable x and a variable whose own name starts with "_local_"
FrameNames == {"x", LocalKey("x")}

FrameNext ==
    \/ VarSet(FrameNames)
    \/ VarUnset(FrameNames)
    \/ VarPush(FrameNames)
    \/ VarPop

SpecFrame == VarsInit /\ [][FrameNext]_vars

-----------------------------------------------------------------------------
(* Properties of VariableManager and CommandContext *)

HeldBy(scopes, n) == {i \in 1..Len(scopes) : n \in DOMAIN scopes[i]}

Innermost(scopes, n) == CHOOSE i \in HeldBy(scopes, n) : \A j \in HeldBy(scopes, n) : j <= i

\* the documented lookup order: innermost local scope, ..., outermost local
\* scope, global env, and the default (or "") when the name is nowhere
ScopedValue(n, default) ==
    IF HeldBy(local_scopes, n) # {} THEN local_scopes[Innermost(local_scopes, n)][n]
    ELSE IF n \in DOMAIN env THEN env[n]
    ELSE IF default = None THEN ""
    ELSE default

\* C7: in every reachable state get(name, default) is the value of the
\* innermost local scope holding name, else the global env value, else the
\* default ("" without one), and never None.
C7_GetFollowsLookupOrder ==
    \A n \in ScopeNames \cup {"y"}, d \in Defaults :
        /\ VariableManager_get(vm, n, d) = ScopedValue(n, d)
        /\ VariableManager_get(vm, n, d) # None

\* C8: after push, any number of set(x, ., local=True), and pop, get(x) is
\* what it was just before the push, in the manager and in the context.
C8_PopRestoresVisibleValue ==
    last.mark.clean =>
        \A n \in ScopeNames :
            last.mark.set \subseteq {n} =>
                /\ VariableManager_get(vm, n, None) = last.mark.vm[n]
                /\ CommandContext_get_variable(ctx, n) = last.mark.ctx[n]

\* the context's half of C8
C8_ContextRestores ==
    last.mark.clean =>
        \A n \in ScopeNames :
            last.mark.set \subseteq {n} => CommandContext_get_variable(ctx, n) = last.mark.ctx[n]

C8_ContextWitness ==
    /\ last.mark.clean
    /\ last.mark.set = {"x"}
    /\ Len(ctx_scopes) = 1
    /\ "x" \in DOMAIN ctx_scopes[1]
    /\ "x" \in DOMAIN ctx_env
    /\ ctx_scopes[1]["x"] # ctx_env["x"]

\* C9: a pop with no local scope raises IndexError in the manager and
\* returns normally in the context; neither changes env or the scope stack.
C9_PopOnEmptyStack ==
    [][(local_scopes = << >> /\ ctx_scopes = << >> /\ VarPop) =>
           /\ last'.exc = "IndexError"
           /\ env' = env
           /\ local_scopes' = local_scopes
           /\ last'.ctx_exc = "none"
           /\ ctx_env' = ctx_env
           /\ ctx_scopes' = ctx_scopes]_vars

C9_Witness ==
    /\ last.exc = "IndexError"
    /\ last.ctx_exc = "none"
    /\ local_scopes = << >>
    /\ ctx_scopes = << >>
    /\ "x" \in DOMAIN env
    /\ "x" \in DOMAIN ctx_env

\* C10 as claimed: in every reachable state env["?"] is present and is the
\* decimal string of the code last passed to set_exit_code ("0" before any).
C10_ExitCodeAlwaysHeld ==
    /\ "?" \in DOMAIN env
    /\ env["?"] = str(last_code)

\* C10 amended: env["?"] is present and is the decimal string of the last
\* exit code as long as "?" itself was not the target of unset, of export
\* with a value, or of a set that is not stored in a local scope.
C10_ExitCodeHeldUnlessWritten ==
    ~q_written =>
        /\ "?" \in DOMAIN env
        /\ env["?"] = str(last_code)

C10_Witness ==
    /\ ~q_written
    /\ last_code = 127
    /\ env["?"] = "127"
    /\ local_scopes # << >>
    /\ "?" \in DOMAIN local_scopes[1]


\* C11: after unset(name), name is in no local scope and not in env,
\* has_variable(name) is false, get(name) is "", and get of every other
\* name returns what it returned before.
C11_UnsetFrame ==
    [][\A n \in FrameNames :
           (Unset(n) /\ UNCHANGED non_var_vars) =>
               /\ HeldBy(local_scopes', n) = {}
               /\ n \notin DOMAIN env'
               /\ ~VariableManager_has_variable(vm', n)
               /\ VariableManager_get(vm', n, None) = ""
               /\ \A m \in FrameNames \ {n} :
                      VariableManager_get(vm', m, None) = VariableManager_get(vm, m, None)]_vars

\* the part of C11 about the unset name itself
C11_UnsetNameGone ==
    [][\A n \in FrameNames :
           (Unset(n) /\ UNCHANGED non_var_vars) =>
               /\ HeldBy(local_scopes', n) = {}
               /\ n \notin DOMAIN env'
               /\ ~VariableManager_has_variable(vm', n)
               /\ VariableManager_get(vm', n, None) = ""]_vars

\* C12: get_all_variables returns a dict whose keys are the names of env and
\* of every local scope; a name held by a local scope maps to the value of
\* the innermost scope holding it, any other name to its env value; env and
\* the scope stack are as before the call.
C12_GetAllOverlay ==
    LET call == VariableManager_get_all_variables(vm)
    IN  /\ DOMAIN call.ret = (DOMAIN env) \cup UNION {DOMAIN local_scopes[i] : i \in 1..Len(local_scopes)}
        /\ \A n \in DOMAIN call.ret :
               call.ret[n] = IF HeldBy(local_scopes, n) # {}
                             THEN local_scopes[Innermost(local_scopes, n)][n]
                             ELSE env[n]
        /\ call.self.env = env
        /\ call.self.local_scopes = local_scopes

C12_Witness ==
    /\ Len(local_scopes) = 2
    /\ "x" \in DOMAIN env
    /\ "x" \in DOMAIN local_scopes[1]
    /\ "x" \in DOMAIN local_scopes[2]
    /\ local_scopes[1]["x"] # local_scopes[2]["x"]
    /\ env["x"] # local_scopes[2]["x"]
    /\ VariableManager_get_all_variables(vm).ret["x"] = local_scopes[2]["x"]


-----------------------------------------------------------------------------
(* AliasRegistry lookups, and FunctionRegistry *)

MaxLog == 4         \* longest sequence of define / delete / clear calls followed

\* self._aliases.get(name)
AliasRegistry_get(name) == IF name \in DOMAIN _aliases THEN Some(_aliases[name]) ELSE Nothing

AliasRegistry_exists(name) == name \in DOMAIN _aliases

AliasRegistry_count == Cardinality(DOMAIN _aliases)

\* the dataclass FunctionDefinition
FunctionDefinition(name, params, body, is_ast) ==
    [name |-> name, params |-> params, body |-> body, is_ast |-> is_ast]

\* an element of a body: a raw command-line string or a parsed statement node
RawLine(text) == [kind |-> "str", text |-> text]

StatementNode(text) == [kind |-> "Statement", text |-> text]

\* x or [] of an optional list
OrEmptyList(x) == IF x.some /\ x.v # << >> THEN x.v ELSE << >>

\* d.get(key, default)
DictGet(d, key, default) == IF key \in DOMAIN d THEN d[key] ELSE default

FunctionRegistry_define(name, params, body) ==
    /\ _functions' = DictSet(_functions, name,
                             FunctionDefinition(name, OrEmptyList(params), OrEmptyList(body), FALSE))
    /\ fn_call' = [op |-> "define", name |-> name, params |-> params, body |-> body]

\* a faulty variant: is_ast is not read from the dict
DefineFromDictDropsIsAst(name, func_dict) ==
    /\ _functions' = DictSet(_functions, name,
                             FunctionDefinition(name,
                                                DictGet(func_dict, "params", << >>),
                                                DictGet(func_dict, "body", << >>),
                                                FALSE))
    /\ fn_call' = [op |-> "define_from_dict", name |-> name, func_dict |-> func_dict]

FunctionRegistry_define_from_dict(name, func_dict) ==
    /\ _functions' = DictSet(_functions, name,
                             FunctionDefinition(name,
                                                DictGet(func_dict, "params", << >>),
                                                DictGet(func_dict, "body", << >>),
                                                DictGet(func_dict, "is_ast", FALSE)))
    /\ fn_call' = [op |-> "define_from_dict", name |-> name, func_dict |-> func_dict]

FunctionRegistry_get(name) == IF name \in DOMAIN _functions THEN Some(_functions[name]) ELSE Nothing

\* a faulty variant: every function is reported as raw command lines
GetAsDictRawOnly(name) ==
    LET func == FunctionRegistry_get(name)
    IN  IF func = Nothing THEN Nothing
        ELSE Some([params |-> func.v.params, body |-> func.v.body, is_ast |-> FALSE])

FunctionRegistry_get_as_dict(name) ==
    LET func == FunctionRegistry_get(name)
    IN  IF func = Nothing THEN Nothing
        ELSE Some([params |-> func.v.params, body |-> func.v.body, is_ast |-> func.v.is_ast])

FunctionRegistry_delete(name) ==
    /\ _functions' = IF name \in DOMAIN _functions THEN DictDel(_functions, name) ELSE _functions
    /\ fn_call' = [op |-> "delete", name |-> name, ret |-> name \in DOMAIN _functions]

FunctionRegistry_clear ==
    /\ _functions' = EmptyDict
    /\ fn_call' = [op |-> "clear"]

FunctionRegistry_count == Cardinality(DOMAIN _functions)

\* the call is appended to the log, where one is kept
Recorded(logging, entry) ==
    IF logging THEN Len(log) < MaxLog /\ log' = Append(log, entry)
    ELSE UNCHANGED log

RegAliasNames == {<<"a">>, <<"A">>}

RegExpansions == {<<"a">>, <<"b">>}

FnNames == {"f", "F"}

RegBodies == {Some(<<RawLine("a")>>), Some(<<RawLine("b")>>)}

ParamArgs == {Nothing, Some(<< >>), Some(<<"p">>)}

BodyArgs == {Nothing, Some(<< >>), Some(<<RawLine("a")>>)}

\* a dict with any of the keys params, body, is_ast
FuncDict(params, body, is_ast) ==
    LET d1 == IF params.some THEN DictSet(EmptyDict, "params", params.v) ELSE EmptyDict
        d2 == IF body.some THEN DictSet(d1, "body", body.v) ELSE d1
    IN  IF is_ast.some THEN DictSet(d2, "is_ast", is_ast.v) ELSE d2

FuncDicts ==
    {FuncDict(params, body, is_ast) :
        params \in {Nothing, Some(<< >>), Some(<<"p">>)},
        body \in {Nothing, Some(<<RawLine("a")>>), Some(<<StatementNode("a")>>)},
        is_ast \in {Nothing, Some(FALSE), Some(TRUE)}}

RegAliasDefine ==
    \E name \in RegAliasNames, expansion \in RegExpansions :
        /\ define(name, expansion)
        /\ Recorded(TRUE, [reg |-> "alias", op |-> "define", name |-> name, value |-> expansion])
        /\ UNCHANGED <<fn_vars, non_reg_vars>>

RegAliasDelete ==
    \E name \in RegAliasNames :
        /\ delete(name)
        /\ Recorded(TRUE, [reg |-> "alias", op |-> "delete", name |-> name])
        /\ UNCHANGED <<fn_vars, non_reg_vars>>

RegAliasClear ==
    /\ clear
    /\ Recorded(TRUE, [reg |-> "alias", op |-> "clear"])
    /\ UNCHANGED <<fn_vars, non_reg_vars>>

FnDefine(logging, params_given, bodies) ==
    \E name \in FnNames, params \in params_given, body \in bodies :
        /\ FunctionRegistry_define(name, params, body)
        /\ Recorded(logging, [reg |-> "function", op |-> "define", name |-> name, value |-> body])
        /\ UNCHANGED <<alias_vars, non_reg_vars>>

FnDefineFromDict ==
    \E name \in FnNames, func_dict \in FuncDicts :
        /\ FunctionRegistry_define_from_dict(name, func_dict)
        /\ UNCHANGED <<alias_vars, non_reg_vars, log>>

FnDelete(logging) ==
    \E name \in FnNames :
        /\ FunctionRegistry_delete(name)
        /\ Recorded(logging, [reg |-> "function", op |-> "delete", name |-> name])
        /\ UNCHANGED <<alias_vars, non_reg_vars>>

FnClear(logging) ==
    /\ FunctionRegistry_clear
    /\ Recorded(logging, [reg |-> "function", op |-> "clear"])
    /\ UNCHANGED <<alias_vars, non_reg_vars>>

RegInit ==
    /\ AliasIdle
    /\ VarsIdle
    /\ FuncsIdle
    /\ LogIdle
    /\ PathIdle
    /\ ProcIdle
    /\ ErrIdle
    /\ ExpandIdle
    /\ BaseIdle

\* both registries, every define / delete / clear call logged
RegNext ==
    \/ RegAliasDefine
    \/ RegAliasDelete
    \/ RegAliasClear
    \/ FnDefine(TRUE, {Nothing}, RegBodies)
    \/ FnDelete(TRUE)
    \/ FnClear(TRUE)

SpecRegs == RegInit /\ [][RegNext]_vars

\* the function registry and its two ways of defining a function
FuncsNext ==
    \/ FnDefine(FALSE, ParamArgs, BodyArgs)
    \/ FnDefineFromDict
    \/ FnDelete(FALSE)
    \/ FnClear(FALSE)

SpecFuncs == RegInit /\ [][FuncsNext]_vars

-----------------------------------------------------------------------------
(* Properties of the registries *)

\* the logged calls that decide whether name is defined in registry reg
Touching(reg, name) ==
    {i \in 1..Len(log) : log[i].reg = reg /\ (log[i].op = "clear" \/ log[i].name = name)}

LastTouch(reg, name) ==
    CHOOSE i \in Touching(reg, name) : \A j \in Touching(reg, name) : j <= i

\* the most recent define of name is followed by no delete of name and no clear
Live(reg, name) == Touching(reg, name) # {} /\ log[LastTouch(reg, name)].op = "define"

LiveValue(reg, name) == log[LastTouch(reg, name)].value

\* C13: in both registries get(name) is the value of the most recent define
\* of exactly that name when no delete of it and no clear followed, and None
\* otherwise; count() is the number of such names; "a" and "A", "f" and "F"
\* are separate entries.
C13_LastDefineWins ==
    /\ \A name \in RegAliasNames :
           AliasRegistry_get(name) = IF Live("alias", name) THEN Some(LiveValue("alias", name))
                                     ELSE Nothing
    /\ AliasRegistry_count = Cardinality({name \in RegAliasNames : Live("alias", name)})
    /\ \A name \in FnNames :
           LET func == FunctionRegistry_get(name)
           IN  IF Live("function", name)
               THEN /\ func.some
                    /\ func.v.name = name
                    /\ func.v.body = LiveValue("function", name).v
               ELSE func = Nothing
    /\ FunctionRegistry_count = Cardinality({name \in FnNames : Live("function", name)})

C13_Witness ==
    /\ \E i, j \in 1..Len(log) :
           /\ i < j
           /\ log[i].reg = "alias" /\ log[i].op = "define"
           /\ log[i].name = <<"a">> /\ log[i].value = <<"a">>
           /\ log[j].reg = "alias" /\ log[j].op = "define"
           /\ log[j].name = <<"a">> /\ log[j].value = <<"b">>
    /\ AliasRegistry_get(<<"a">>) = Some(<<"b">>)
    /\ AliasRegistry_get(<<"A">>) = Some(<<"a">>)
    /\ AliasRegistry_count = 2
    /\ FunctionRegistry_get("f") = Nothing
    /\ FunctionRegistry_get("F") # Nothing
    /\ FunctionRegistry_count = 1


\* C19: define stores is_ast = False; after define_from_dict(name, d),
\* get_as_dict(name) is the dict of d's params, body and is_ast, with [], []
\* and False for a key that d lacks; get_as_dict of an undefined name is None.
C19_DictRoundTrip ==
    /\ fn_call.op = "define" =>
           /\ _functions[fn_call.name].is_ast = FALSE
           /\ FunctionRegistry_get_as_dict(fn_call.name).v.is_ast = FALSE
    /\ fn_call.op = "define_from_dict" =>
           LET d == fn_call.func_dict
           IN  FunctionRegistry_get_as_dict(fn_call.name) =
                   Some([params |-> IF "params" \in DOMAIN d THEN d["params"] ELSE << >>,
                         body |-> IF "body" \in DOMAIN d THEN d["body"] ELSE << >>,
                         is_ast |-> IF "is_ast" \in DOMAIN d THEN d["is_ast"] ELSE FALSE])
    /\ \A name \in FnNames :
           name \notin DOMAIN _functions => FunctionRegistry_get_as_dict(name) = Nothing

C19_Witness ==
    /\ fn_call.op = "define_from_dict"
    /\ fn_call.name = "f"
    /\ DOMAIN fn_call.func_dict = {"is_ast"}
    /\ fn_call.func_dict["is_ast"] = TRUE
    /\ FunctionRegistry_get_as_dict("f") = Some([params |-> << >>, body |-> << >>, is_ast |-> TRUE])
    /\ FunctionRegistry_get_as_dict("F") = Nothing

\* every element of the body is of the representation that is_ast announces
Unmixed(is_ast, body) ==
    \A i \in 1..Len(body) : body[i].kind = IF is_ast THEN "Statement" ELSE "str"

AllUnmixed(functions) ==
    \A name \in DOMAIN functions : Unmixed(functions[name].is_ast, functions[name].body)

\* C20 as claimed: after any sequence of define and define_from_dict calls
\* every stored function has is_ast true with a body of statement nodes or
\* is_ast false with a body of raw command lines.
C20_NeverMixed == AllUnmixed(_functions)

\* C20 amended: a define call given raw command lines, and a
\* define_from_dict call given a dict whose is_ast (False when absent) agrees
\* with its body, leave every stored function unmixed when they found it so.
C20_UnmixedPreserved ==
    [][(/\ AllUnmixed(_functions)
        /\ \/ /\ fn_call'.op = "define"
              /\ Unmixed(FALSE, IF fn_call'.body.some THEN fn_call'.body.v ELSE << >>)
           \/ /\ fn_call'.op = "define_from_dict"
              /\ LET d == fn_call'.func_dict
                 IN  Unmixed(IF "is_ast" \in DOMAIN d THEN d["is_ast"] ELSE FALSE,
                             IF "body" \in DOMAIN d THEN d["body"] ELSE << >>))
       => AllUnmixed(_functions')]_vars

C20_Witness ==
    /\ fn_call.op = "define_from_dict"
    /\ fn_call.name = "F"
    /\ DOMAIN _functions = {"f", "F"}
    /\ _functions["F"].is_ast = TRUE
    /\ _functions["F"].body = <<StatementNode("a")>>
    /\ _functions["f"].is_ast = FALSE
    /\ _functions["f"].body = <<RawLine("a")>>


-----------------------------------------------------------------------------
(* PathManager.  A path is a sequence of characters. *)

MaxPathLen == 3     \* longest path argument, the deep ones below apart
MaxCwdLen == 5      \* longest cwd that change_directory is followed to

PathChars == {"/", ".", "a"}

PathsUpTo(n) == UNION {[1..k -> PathChars] : k \in 0..n}

\* every short path, and three that climb more than one level
PathArgs ==
    PathsUpTo(MaxPathLen) \cup {<<".", ".", "/", ".", ".">>, <<"/", ".", ".", "/", ".", ".">>,
                                 <<"a", "/", ".", ".", "/", ".", ".">>}

ChrootRoots == {<<"/", "a">>, <<"/", "a", "/", "a">>}

InitialCwds == {path \in PathsUpTo(2) : path # << >> /\ path[1] = "/"}

\* path.startswith(prefix)
startswith(path, prefix) ==
    Len(path) >= Len(prefix) /\ SubSeq(path, 1, Len(prefix)) = prefix

\* path.lstrip("/")
RECURSIVE lstrip_slash(_)
lstrip_slash(path) ==
    IF path # << >> /\ Head(path) = "/" THEN lstrip_slash(Tail(path)) ELSE path

\* path.split("/")
RECURSIVE split_slash(_, _)
split_slash(path, comp) ==
    IF path = << >> THEN <<comp>>
    ELSE IF Head(path) = "/" THEN <<comp>> \o split_slash(Tail(path), << >>)
    ELSE split_slash(Tail(path), Append(comp, Head(path)))

\* "/".join(comps)
RECURSIVE join_slash(_)
join_slash(comps) ==
    IF comps = << >> THEN << >>
    ELSE IF Len(comps) = 1 THEN comps[1]
    ELSE comps[1] \o <<"/">> \o join_slash(Tail(comps))

\* os.path.join(a, b)
os_path_join(a, b) ==
    IF startswith(b, <<"/">>) THEN b
    ELSE IF a = << >> \/ a[Len(a)] = "/" THEN a \o b
    ELSE a \o <<"/">> \o b

\* the loop of os.path.normpath over the components
RECURSIVE norm_comps(_, _, _)
norm_comps(comps, initial_slashes, new_comps) ==
    IF comps = << >> THEN new_comps
    ELSE LET comp == Head(comps)
             n == Len(new_comps)
         IN  IF comp = << >> \/ comp = <<".">>
                 THEN norm_comps(Tail(comps), initial_slashes, new_comps)
             ELSE IF \/ comp # <<".", ".">>
                     \/ (initial_slashes = 0 /\ n = 0)
                     \/ (n > 0 /\ new_comps[n] = <<".", ".">>)
                 THEN norm_comps(Tail(comps), initial_slashes, Append(new_comps, comp))
             ELSE IF n > 0
                 THEN norm_comps(Tail(comps), initial_slashes, SubSeq(new_comps, 1, n - 1))
             ELSE norm_comps(Tail(comps), initial_slashes, new_comps)

\* os.path.normpath(path) of posixpath
os_path_normpath(path) ==
    LET initial_slashes ==
            IF ~startswith(path, <<"/">>) THEN 0
            ELSE IF startswith(path, <<"/", "/">>) /\ ~startswith(path, <<"/", "/", "/">>) THEN 2
            ELSE 1
        joined == join_slash(norm_comps(split_slash(path, << >>), initial_slashes, << >>))
        out == [i \in 1..initial_slashes |-> "/"] \o joined
    IN  IF path = << >> THEN <<".">>
        ELSE IF out = << >> THEN <<".">>
        ELSE out

\* a faulty variant: the path is joined to the chroot root before ".." is resolved
ResolveJoinsBeforeNormalising(self, path0) ==
    LET path == IF path0 = << >> THEN self.cwd ELSE path0
    IN  IF self.chroot_root = Nothing
            THEN IF startswith(path, <<"/">>) THEN os_path_normpath(path)
                 ELSE os_path_normpath(os_path_join(self.cwd, path))
        ELSE LET virtual_path == IF startswith(path, <<"/">>) THEN path
                                 ELSE os_path_join(self.cwd, path)
             IN  os_path_normpath(os_path_join(self.chroot_root.v, lstrip_slash(virtual_path)))

PathManager_resolve_path(self, path0) ==
    LET path == IF path0 = << >> THEN self.cwd ELSE path0
    IN  IF self.chroot_root = Nothing
            THEN IF startswith(path, <<"/">>) THEN os_path_normpath(path)
                 ELSE os_path_normpath(os_path_join(self.cwd, path))
        ELSE LET v1 == IF startswith(path, <<"/">>) THEN path ELSE os_path_join(self.cwd, path)
                 v2 == os_path_normpath(v1)
                 virtual_path == IF ~startswith(v2, <<"/">>) THEN <<"/">> \o v2 ELSE v2
             IN  os_path_normpath(os_path_join(self.chroot_root.v, lstrip_slash(virtual_path)))

\* a faulty variant: under chroot the real path becomes the cwd
ChangeDirectoryStoresRealPath(self, path) ==
    IF self.chroot_root = Nothing
        THEN IF startswith(path, <<"/">>) THEN os_path_normpath(path)
             ELSE os_path_normpath(os_path_join(self.cwd, path))
    ELSE PathManager_resolve_path(self, path)

\* change_directory: the cwd afterwards
PathManager_change_directory(self, path) ==
    IF self.chroot_root = Nothing
        THEN IF startswith(path, <<"/">>) THEN os_path_normpath(path)
             ELSE os_path_normpath(os_path_join(self.cwd, path))
    ELSE LET virtual_path == IF startswith(path, <<"/">>) THEN path
                             ELSE os_path_join(self.cwd, path)
             new_cwd == os_path_normpath(virtual_path)
         IN  IF ~startswith(new_cwd, <<"/">>) THEN <<"/">> \o new_cwd ELSE new_cwd

\* set_chroot: the manager afterwards
PathManager_set_chroot(self, root) ==
    [cwd |-> IF root # Nothing THEN <<"/">> ELSE self.cwd, chroot_root |-> root]

pm == [cwd |-> cwd, chroot_root |-> chroot_root]

non_path_vars == <<alias_vars, var_vars, fn_vars, log, proc_vars, err, expand_call, since_empty>>

resolve_path ==
    \E path \in PathArgs :
        /\ path_call' = [op |-> "resolve_path", path |-> path, from |-> cwd,
                         ret |-> PathManager_resolve_path(pm, path)]
        /\ UNCHANGED <<cwd, chroot_root, non_path_vars>>

change_directory ==
    \E path \in PathArgs :
        /\ Len(PathManager_change_directory(pm, path)) <= MaxCwdLen
        /\ cwd' = PathManager_change_directory(pm, path)
        /\ path_call' = [op |-> "change_directory", path |-> path, from |-> cwd]
        /\ UNCHANGED <<chroot_root, non_path_vars>>

set_chroot ==
    \E root \in {Nothing} \cup {Some(r) : r \in ChrootRoots} :
        /\ cwd' = PathManager_set_chroot(pm, root).cwd
        /\ chroot_root' = PathManager_set_chroot(pm, root).chroot_root
        /\ path_call' = [op |-> "set_chroot", root |-> root, from |-> cwd]
        /\ UNCHANGED non_path_vars

PathInit ==
    /\ cwd \in InitialCwds
    /\ chroot_root \in {Nothing} \cup {Some(r) : r \in ChrootRoots}
    /\ path_call = NoCall
    /\ AliasIdle
    /\ VarsIdle
    /\ FuncsIdle
    /\ LogIdle
    /\ ProcIdle
    /\ ErrIdle
    /\ ExpandIdle
    /\ BaseIdle

PathNext ==
    \/ resolve_path
    \/ change_directory
    \/ set_chroot

SpecPath == PathInit /\ [][PathNext]_vars

-----------------------------------------------------------------------------
(* Properties of PathManager *)

\* the directory names of a path, in order
Components(path) == SelectSeq(split_slash(path, << >>), LAMBDA comp : comp # << >>)

IsPrefixSeq(a, b) == Len(a) <= Len(b) /\ SubSeq(b, 1, Len(a)) = a

NoDots(path) ==
    \A i \in 1..Len(Components(path)) :
        Components(path)[i] # <<".">> /\ Components(path)[i] # <<".", ".">>

\* path is root or lies beneath it, and names no ".." that could leave it
Beneath(path, root) ==
    /\ startswith(path, <<"/">>)
    /\ NoDots(path)
    /\ IsPrefixSeq(Components(root), Components(path))

\* C14: under chroot, with an absolute cwd, what resolve_path returns is
\* chroot_root or a path beneath it, whatever the argument.
C14_ResolveStaysInChroot ==
    (path_call.op = "resolve_path" /\ chroot_root # Nothing) =>
        Beneath(path_call.ret, chroot_root.v)

C14_Witness ==
    /\ path_call.op = "resolve_path"
    /\ chroot_root = Some(<<"/", "a", "/", "a">>)
    /\ cwd = <<"/", "a">>
    /\ path_call.path = <<".", ".", "/", ".", ".">>
    /\ path_call.ret = <<"/", "a", "/", "a">>


\* the directory reached by following the components one by one from "/"
RECURSIVE Walk(_, _)
Walk(stack, comps) ==
    IF comps = << >> THEN stack
    ELSE LET comp == Head(comps)
         IN  IF comp = << >> \/ comp = <<".">> THEN Walk(stack, Tail(comps))
             ELSE IF comp = <<".", ".">>
                 THEN Walk(IF stack = << >> THEN stack ELSE SubSeq(stack, 1, Len(stack) - 1),
                           Tail(comps))
             ELSE Walk(Append(stack, comp), Tail(comps))

\* the virtual directory that path names, seen from the directory from
VirtualTarget(from, path) ==
    IF startswith(path, <<"/">>) THEN Walk(<< >>, split_slash(path, << >>))
    ELSE Walk(<< >>, split_slash(from, << >>) \o split_slash(path, << >>))

\* C15 as claimed: after every change_directory or set_chroot call cwd
\* begins with "/" and has no "." or ".." component; under chroot it does not
\* begin with chroot_root; ".." at "/" stays at "/"; set_chroot with a root
\* resets cwd to "/".
C15_CwdAbsoluteNormalised ==
    path_call.op \in {"change_directory", "set_chroot"} =>
        /\ startswith(cwd, <<"/">>)
        /\ NoDots(cwd)
        /\ chroot_root # Nothing => ~startswith(cwd, chroot_root.v)
        /\ (/\ path_call.op = "change_directory"
            /\ path_call.from = <<"/">>
            /\ path_call.path = <<".", ".">>) => cwd = <<"/">>
        /\ (path_call.op = "set_chroot" /\ path_call.root # Nothing) => cwd = <<"/">>

\* C15 amended: change_directory leaves cwd beginning with "/", without "."
\* or ".." component, naming the virtual directory that the argument names
\* (chroot_root is not prepended; ".." at "/" stays at "/"); set_chroot with
\* a root resets cwd to "/"; set_chroot(None) and resolve_path leave cwd as
\* it was.
C15_CwdVirtualNormalised ==
    /\ path_call.op = "change_directory" =>
           /\ startswith(cwd, <<"/">>)
           /\ NoDots(cwd)
           /\ Components(cwd) = VirtualTarget(path_call.from, path_call.path)
           /\ (path_call.from = <<"/">> /\ path_call.path = <<".", ".">>) => cwd = <<"/">>
    /\ (path_call.op = "set_chroot" /\ path_call.root # Nothing) =>
           cwd = <<"/">> /\ chroot_root = path_call.root
    /\ (path_call.op = "set_chroot" /\ path_call.root = Nothing) =>
           cwd = path_call.from /\ chroot_root = Nothing
    /\ path_call.op = "resolve_path" => cwd = path_call.from

C15_Witness ==
    /\ path_call.op = "change_directory"
    /\ path_call.from = <<"/", "a">>
    /\ path_call.path = <<".", ".", "/", ".", ".">>
    /\ chroot_root = Some(<<"/", "a">>)
    /\ cwd = <<"/">>


-----------------------------------------------------------------------------
(* Process.execute *)

MaxStderr == 2      \* most messages followed in a stderr buffer

ReturnCodes == {0, 1, 2, 3}

ProcCommands == {"c", "ls"}

\* the classes an executor raises, each with the classes it is an instance of
Bases(cls) ==
    CASE cls = "KeyboardInterrupt" -> {"KeyboardInterrupt", "BaseException"}
      [] cls = "ControlFlowException" -> {"ControlFlowException", "Exception", "BaseException"}
      [] cls = "ValueError" -> {"ValueError", "Exception", "BaseException"}
      [] cls = "FileNotFoundError" ->
             {"FileNotFoundError", "FileSystemError", "ShellError", "Exception", "BaseException"}

IsInstance(exc, cls) == cls \in Bases(exc.cls)

\* what a call of the executor does: return a code or raise
ExecutorOutcomes ==
    {[kind |-> "return", code |-> code] : code \in ReturnCodes}
        \cup {[kind |-> "raise", exc |-> [cls |-> cls, message |-> "boom"]] :
                 cls \in {"KeyboardInterrupt", "ControlFlowException", "ValueError",
                          "FileNotFoundError"}}

NoExecutor == [kind |-> "none"]

\* a faulty variant: an exception of the executor leaves exit_code alone
ExecuteKeepsCodeOnError(self, outcome) ==
    IF ~self.executor
        THEN [self |-> [self EXCEPT !.exit_code = 127,
                                    !.stderr = Append(@, "Error: No such command '" \o self.command \o "'\n")],
              ret |-> Some(127), raised |-> Nothing]
    ELSE IF outcome.kind = "return"
        THEN [self |-> [self EXCEPT !.exit_code = outcome.code],
              ret |-> Some(outcome.code), raised |-> Nothing]
    ELSE IF IsInstance(outcome.exc, "KeyboardInterrupt")
        THEN [self |-> self, ret |-> Nothing, raised |-> Some(outcome.exc)]
    ELSE IF IsInstance(outcome.exc, "ControlFlowException")
        THEN [self |-> self, ret |-> Nothing, raised |-> Some(outcome.exc)]
    ELSE IF IsInstance(outcome.exc, "Exception")
        THEN [self |-> [self EXCEPT !.stderr = Append(@, "Error executing '" \o self.command \o "': "
                                                             \o outcome.exc.message \o "\n")],
              ret |-> Some(self.exit_code), raised |-> Nothing]
    ELSE [self |-> self, ret |-> Nothing, raised |-> Some(outcome.exc)]

\* a faulty variant: every exception of the executor becomes exit code 1
ExecuteSwallowsAll(self, outcome) ==
    IF ~self.executor
        THEN [self |-> [self EXCEPT !.exit_code = 127,
                                    !.stderr = Append(@, "Error: No such command '" \o self.command \o "'\n")],
              ret |-> Some(127), raised |-> Nothing]
    ELSE IF outcome.kind = "return"
        THEN [self |-> [self EXCEPT !.exit_code = outcome.code],
              ret |-> Some(outcome.code), raised |-> Nothing]
    ELSE [self |-> [self EXCEPT !.exit_code = 1,
                                !.stderr = Append(@, "Error executing '" \o self.command \o "': "
                                                         \o outcome.exc.message \o "\n")],
          ret |-> Some(1), raised |-> Nothing]

\* execute: the process afterwards, the code returned, the exception that escapes
Process_execute(self, outcome) ==
    IF ~self.executor
        THEN [self |-> [self EXCEPT !.exit_code = 127,
                                    !.stderr = Append(@, "Error: No such command '" \o self.command \o "'\n")],
              ret |-> Some(127), raised |-> Nothing]
    ELSE IF outcome.kind = "return"
        THEN [self |-> [self EXCEPT !.exit_code = outcome.code],
              ret |-> Some(outcome.code), raised |-> Nothing]
    ELSE IF IsInstance(outcome.exc, "KeyboardInterrupt")
        THEN [self |-> self, ret |-> Nothing, raised |-> Some(outcome.exc)]
    ELSE IF IsInstance(outcome.exc, "ControlFlowException")
        THEN [self |-> self, ret |-> Nothing, raised |-> Some(outcome.exc)]
    ELSE IF IsInstance(outcome.exc, "Exception")
        THEN [self |-> [self EXCEPT !.exit_code = 1,
                                    !.stderr = Append(@, "Error executing '" \o self.command \o "': "
                                                             \o outcome.exc.message \o "\n")],
              ret |-> Some(1), raised |-> Nothing]
    ELSE [self |-> self, ret |-> Nothing, raised |-> Some(outcome.exc)]

non_proc_vars == <<alias_vars, var_vars, fn_vars, log, path_vars, err, expand_call, since_empty>>

\* execute() is called; the executor, if there is one, does one of the things it can do
execute ==
    \E outcome \in IF proc.executor THEN ExecutorOutcomes ELSE {NoExecutor} :
        /\ Len(proc.stderr) < MaxStderr
        /\ proc' = Process_execute(proc, outcome).self
        /\ proc_call' = [op |-> "execute", outcome |-> outcome, before |-> proc,
                         ret |-> Process_execute(proc, outcome).ret,
                         raised |-> Process_execute(proc, outcome).raised]
        /\ UNCHANGED non_proc_vars

\* Process.__init__ with its own stderr buffer: the process constructed
Process_init(command, executor) ==
    [command |-> command, executor |-> executor, exit_code |-> 0, stderr |-> << >>]

\* another process is constructed and takes the place of the one before
new_process ==
    \E command \in ProcCommands, executor \in BOOLEAN :
        /\ proc' = Process_init(command, executor)
        /\ proc_call' = NoCall
        /\ UNCHANGED non_proc_vars

ProcInit ==
    /\ proc \in {Process_init(command, executor) : command \in ProcCommands, executor \in BOOLEAN}
    /\ proc_call = NoCall
    /\ AliasIdle
    /\ VarsIdle
    /\ FuncsIdle
    /\ LogIdle
    /\ PathIdle
    /\ ErrIdle
    /\ ExpandIdle
    /\ BaseIdle

ProcNext ==
    \/ execute
    \/ new_process

SpecProc == ProcInit /\ [][ProcNext]_vars

-----------------------------------------------------------------------------
(* Properties of Process.execute *)

Executed == proc_call.op = "execute"

ExecutorRaised == Executed /\ proc_call.outcome.kind = "raise"

\* the executor raised KeyboardInterrupt or a control-flow signal
Cancelled ==
    ExecutorRaised /\ proc_call.outcome.exc.cls \in {"KeyboardInterrupt", "ControlFlowException"}

WroteOneMessage == Len(proc.stderr) = Len(proc_call.before.stderr) + 1

\* C16: a run that is not cancelled returns a number and stores it in
\* exit_code, and no exception escapes: 127 and one message on stderr
\* without an executor, 1 and one message on stderr when the executor raises
\* any other exception, and the executor's return value otherwise.
C16_ExecuteYieldsExitCode ==
    (Executed /\ ~Cancelled) =>
        /\ proc_call.raised = Nothing
        /\ proc_call.ret # Nothing
        /\ proc_call.ret.v \in Nat
        /\ proc.exit_code = proc_call.ret.v
        /\ ~proc_call.before.executor => (proc_call.ret.v = 127 /\ WroteOneMessage)
        /\ ExecutorRaised => (proc_call.ret.v = 1 /\ WroteOneMessage)
        /\ (Executed /\ proc_call.outcome.kind = "return") =>
               (proc_call.ret.v = proc_call.outcome.code /\ proc.stderr = proc_call.before.stderr)

C16_Witness ==
    /\ ExecutorRaised
    /\ proc_call.outcome.exc.cls = "FileNotFoundError"
    /\ proc_call.before.exit_code = 3
    /\ proc.exit_code = 1
    /\ proc.stderr = <<"Error executing 'c': boom\n">>

\* C17: when the executor raises KeyboardInterrupt or a control-flow
\* exception, that exception escapes execute, nothing is written to stderr
\* and exit_code keeps the value it had.
C17_CancellationPropagates ==
    Cancelled =>
        /\ proc_call.raised = Some(proc_call.outcome.exc)
        /\ proc_call.ret = Nothing
        /\ proc.stderr = proc_call.before.stderr
        /\ proc.exit_code = proc_call.before.exit_code

C17_Witness ==
    /\ Cancelled
    /\ proc_call.outcome.exc.cls = "ControlFlowException"
    /\ proc_call.before.exit_code = 3
    /\ proc.exit_code = 3
    /\ proc_call.raised # Nothing


-----------------------------------------------------------------------------
(* The exception hierarchy of exceptions.py *)

\* ShellError.__init__: the attributes of the exception object
ShellError_init(cls, message, exit_code) ==
    [cls |-> cls, message |-> message, exit_code |-> exit_code]

\* ShellError.__str__
ShellError_str(self) == self.message

FileSystemError_init(cls, message, path, exit_code) ==
    DictUpdate(ShellError_init(cls, message, exit_code), [path |-> path])

CommandError_init(cls, command, message, exit_code) ==
    DictUpdate(ShellError_init(cls, message, exit_code), [command |-> command])

\* a faulty variant: a parsing error with the generic exit code
ParsingErrorGeneric(cls, message, line, position) ==
    DictUpdate(ShellError_init(cls, message, 1), [line |-> line, position |-> position])

ParsingError_init(cls, message, line, position) ==
    DictUpdate(ShellError_init(cls, message, 2), [line |-> line, position |-> position])

\* the classes, by the base class they derive from
ErrorClasses(base) ==
    CASE base = "ShellError" -> {"ShellError"}
      [] base = "FileSystemError" ->
             {"FileSystemError", "FileNotFoundError", "FileExistsError", "PermissionDeniedError",
              "IsADirectoryError", "NotADirectoryError", "DirectoryNotEmptyError",
              "FileSystemConnectionError"}
      [] base = "CommandError" ->
             {"CommandError", "CommandNotFoundError", "InvalidArgumentError", "CommandSyntaxError"}
      [] base = "ParsingError" ->
             {"ParsingError", "UnmatchedQuoteError", "UnmatchedBracketError", "InvalidSyntaxError"}
      [] base = "ExpressionError" ->
             {"ExpressionError", "UndefinedVariableError", "ArithmeticError",
              "InvalidExpressionError"}
      [] base = "NetworkError" -> {"NetworkError", "ConnectionError", "TimeoutError"}

\* the arguments a constructor may be given: subject is the path, command,
\* line, variable, expression or url, text the message or details
ErrorArgs ==
    [subject : {"/f"}, text : {"bad"}, message : {None, "custom"},
     operation : {None, "read"}, details : {None, "refused"},
     timeout : {Nothing, Some(30)},
     exit_code : {Nothing, Some(2), Some(3)}]

\* cls(...): the object that the constructor of cls builds from the arguments
new_error(cls, a) ==
    LET code == IF a.exit_code.some THEN a.exit_code.v ELSE 1
        msg(default) == IF a.message = None THEN default ELSE a.message
        op(obj) == DictUpdate(obj, [operation |-> a.operation])
    IN  CASE cls \in {"ShellError", "ExpressionError", "NetworkError"} ->
                 ShellError_init(cls, a.text, code)
          [] cls = "FileSystemError" -> FileSystemError_init(cls, a.text, a.subject, code)
          [] cls = "FileNotFoundError" ->
                 FileSystemError_init(cls, msg(a.subject \o ": No such file or directory"), a.subject, 1)
          [] cls = "FileExistsError" ->
                 FileSystemError_init(cls, msg(a.subject \o ": File exists"), a.subject, 1)
          [] cls = "PermissionDeniedError" ->
                 op(FileSystemError_init(cls,
                        msg(IF a.operation # None /\ a.operation # ""
                            THEN a.subject \o ": Permission denied (" \o a.operation \o ")"
                            ELSE a.subject \o ": Permission denied"),
                        a.subject, 1))
          [] cls = "IsADirectoryError" ->
                 op(FileSystemError_init(cls,
                        msg(IF a.operation # None /\ a.operation # ""
                            THEN a.subject \o ": Is a directory (cannot " \o a.operation \o ")"
                            ELSE a.subject \o ": Is a directory"),
                        a.subject, 1))
          [] cls = "NotADirectoryError" ->
                 FileSystemError_init(cls, msg(a.subject \o ": Not a directory"), a.subject, 1)
          [] cls = "DirectoryNotEmptyError" ->
                 FileSystemError_init(cls, msg(a.subject \o ": Directory not empty"), a.subject, 1)
          [] cls = "FileSystemConnectionError" ->
                 DictUpdate(FileSystemError_init(cls, msg("Cannot connect to AGFS server at " \o a.subject),
                                                 None, 1),
                            [server_url |-> a.subject])
          [] cls = "CommandError" -> CommandError_init(cls, a.subject, a.text, code)
          [] cls = "CommandNotFoundError" ->
                 CommandError_init(cls, a.subject, a.subject \o ": command not found", 127)
          [] cls = "InvalidArgumentError" ->
                 DictUpdate(CommandError_init(cls, a.subject,
                                              msg(a.subject \o ": " \o a.text \o ": invalid argument"), 1),
                            [argument |-> a.text])
          [] cls = "CommandSyntaxError" ->
                 DictUpdate(CommandError_init(cls, a.subject, a.subject \o ": " \o a.text, 2),
                            [details |-> a.text])
          [] cls = "ParsingError" -> ParsingError_init(cls, a.text, None, Nothing)
          [] cls = "UnmatchedQuoteError" ->
                 DictUpdate(ParsingError_init(cls, "Unmatched " \o a.text \o " in command",
                                              a.subject, Nothing),
                            [quote_char |-> a.text])
          [] cls = "UnmatchedBracketError" ->
                 DictUpdate(ParsingError_init(cls, "Unmatched " \o a.text \o " in command",
                                              a.subject, Nothing),
                            [bracket_char |-> a.text])
          [] cls = "InvalidSyntaxError" ->
                 DictUpdate(ParsingError_init(cls, "Syntax error: " \o a.text, a.subject, Nothing),
                            [details |-> a.text])
          [] cls = "UndefinedVariableError" ->
                 DictUpdate(ShellError_init(cls, a.subject \o ": undefined variable", 1),
                            [var_name |-> a.subject])
          [] cls = "ArithmeticError" ->
                 DictUpdate(ShellError_init(cls, "Arithmetic error in '" \o a.subject \o "': " \o a.text, 1),
                            [expression |-> a.subject, details |-> a.text])
          [] cls = "InvalidExpressionError" ->
                 DictUpdate(ShellError_init(cls, "Invalid expression '" \o a.subject \o "': " \o a.text, 1),
                            [expression |-> a.subject, details |-> a.text])
          [] cls = "ConnectionError" ->
                 DictUpdate(ShellError_init(cls,
                                IF a.details # None /\ a.details # ""
                                THEN "Connection error for " \o a.subject \o ": " \o a.details
                                ELSE "Cannot connect to " \o a.subject,
                                1),
                            [url |-> a.subject, details |-> a.details])
          [] cls = "TimeoutError" ->
                 DictUpdate(ShellError_init(cls,
                                IF a.timeout.some /\ a.timeout.v # 0
                                THEN "Timeout after " \o str(a.timeout.v) \o "s connecting to " \o a.subject
                                ELSE "Connection timeout for " \o a.subject,
                                1),
                            [url |-> a.subject, timeout |-> a.timeout])

non_err_vars == <<alias_vars, var_vars, fn_vars, log, path_vars, proc_vars, expand_call, since_empty>>

\* an error of one of the classes deriving from base is constructed
construct(base) ==
    \E cls \in ErrorClasses(base), a \in ErrorArgs :
        /\ err' = [cls |-> cls, args |-> a, exc |-> new_error(cls, a)]
        /\ UNCHANGED non_err_vars

ErrInit ==
    /\ err = NoCall
    /\ ExpandIdle
    /\ AliasIdle
    /\ VarsIdle
    /\ FuncsIdle
    /\ LogIdle
    /\ PathIdle
    /\ ProcIdle
    /\ BaseIdle

ErrNext ==
    \/ construct("ShellError")
    \/ construct("FileSystemError")
    \/ construct("CommandError")
    \/ construct("ParsingError")
    \/ construct("ExpressionError")
    \/ construct("NetworkError")

SpecErrors == ErrInit /\ [][ErrNext]_vars

-----------------------------------------------------------------------------
(* Properties of the exception hierarchy *)

Constructed == err # NoCall

FilesystemFamily ==
    {"FileSystemError", "FileNotFoundError", "FileExistsError", "PermissionDeniedError",
     "IsADirectoryError", "NotADirectoryError", "DirectoryNotEmptyError",
     "FileSystemConnectionError"}

ParsingFamily == {"ParsingError", "UnmatchedQuoteError", "UnmatchedBracketError", "InvalidSyntaxError"}

ExpressionFamily ==
    {"ExpressionError", "UndefinedVariableError", "ArithmeticError", "InvalidExpressionError"}

NetworkFamily == {"NetworkError", "ConnectionError", "TimeoutError"}

\* the classes whose constructor takes the exit code as an argument
TakesExitCode == {"ShellError", "FileSystemError", "CommandError", "ExpressionError", "NetworkError"}

HasMessage == err.exc.message # None /\ Len(err.exc.message) > 0 /\ ShellError_str(err.exc) = err.exc.message

DocumentedCode ==
    /\ err.exc.exit_code \in {1, 2, 127}
    /\ err.cls = "CommandNotFoundError" => err.exc.exit_code = 127
    /\ err.cls \in {"CommandSyntaxError"} \cup ParsingFamily => err.exc.exit_code = 2
    /\ err.cls \in FilesystemFamily \cup ExpressionFamily \cup NetworkFamily => err.exc.exit_code = 1

\* C18 as claimed: every error carries a message and an exit code from
\* {1, 2, 127}: 127 for CommandNotFoundError, 2 for CommandSyntaxError and
\* the parsing errors, 1 for the filesystem, expression and network errors.
C18_ExitCodeByClass == Constructed => (HasMessage /\ DocumentedCode)

\* C18 amended: the same for every error constructed without an exit_code
\* argument; the five classes whose constructor takes one carry the code
\* they are given.
C18_ExitCodeByClassOrGiven ==
    Constructed =>
        /\ HasMessage
        /\ IF err.cls \in TakesExitCode /\ err.args.exit_code # Nothing
           THEN err.exc.exit_code = err.args.exit_code.v
           ELSE DocumentedCode

C18_Witness ==
    /\ Constructed
    /\ err.cls = "UnmatchedQuoteError"
    /\ err.args.exit_code = Some(3)
    /\ err.exc.exit_code = 2
    /\ err.exc.message = "Unmatched bad in command"


-----------------------------------------------------------------------------
(* CommandContext.expand_variables, with no Shell attached *)

MaxTextLen == 5         \* longest text that expand_variables is given
MaxExpandScopes == 1    \* deepest stack of local scopes while expanding

\* The text is a sequence of characters; names and values are strings, as
\* in the dictionaries.  "a" stands for the letters and "_", "1" for the digits.
ExpChars == {"$", "{", "}", "a", "1"}

TextsUpTo(n) == UNION {[1..k -> ExpChars] : k \in 0..n}

ExpNames == {"a", "a1"}

ExpValues == {"", "1", "$a"}

\* ''.join(chars)
RECURSIVE Join(_)
Join(chars) == IF chars = << >> THEN "" ELSE Head(chars) \o Join(Tail(chars))

\* list(value), for the values a variable may hold
CharsOf == [v \in ExpValues |-> CHOOSE q \in TextsUpTo(2) : Join(q) = v]

\* [a-zA-Z0-9_]* at position i of text: the length of the run
RECURSIVE RunLen(_, _)
RunLen(text, i) ==
    IF i <= Len(text) /\ text[i] \in {"a", "1"} THEN 1 + RunLen(text, i + 1) ELSE 0

\* [a-zA-Z_][a-zA-Z0-9_]* at position i of text: the length of the match, 0 for none
IdentLen(text, i) ==
    IF i <= Len(text) /\ text[i] = "a" THEN RunLen(text, i) ELSE 0

\* r'\$\{([a-zA-Z_][a-zA-Z0-9_]*)\}' matched at position i
MatchBraced(text, i) ==
    LET k == IdentLen(text, i + 2)
    IN  IF /\ i + 1 <= Len(text)
           /\ text[i] = "$"
           /\ text[i + 1] = "{"
           /\ k > 0
           /\ i + 2 + k <= Len(text)
           /\ text[i + 2 + k] = "}"
        THEN [matched |-> TRUE, group1 |-> SubSeq(text, i + 2, i + 1 + k), end |-> i + 3 + k]
        ELSE [matched |-> FALSE]

\* r'\$([a-zA-Z_][a-zA-Z0-9_]*)' matched at position i
MatchSimple(text, i) ==
    LET k == IdentLen(text, i + 1)
    IN  IF text[i] = "$" /\ k > 0
        THEN [matched |-> TRUE, group1 |-> SubSeq(text, i + 1, i + k), end |-> i + 1 + k]
        ELSE [matched |-> FALSE]

\* replace_braced and replace_simple: self.get_variable(var_name) or ''
replace(self, match) ==
    LET value == CommandContext_get_variable(self, Join(match.group1))
    IN  IF value = None \/ value = "" THEN << >> ELSE CharsOf[value]

\* re.sub(pattern, replace, text) from position i on; braced selects the pattern
RECURSIVE re_sub(_, _, _, _)
re_sub(braced, self, text, i) ==
    IF i > Len(text) THEN << >>
    ELSE LET match == IF braced THEN MatchBraced(text, i) ELSE MatchSimple(text, i)
         IN  IF match.matched THEN replace(self, match) \o re_sub(braced, self, text, match.end)
             ELSE <<text[i]>> \o re_sub(braced, self, text, i + 1)

CommandContext_expand_variables(self, text) ==
    re_sub(FALSE, self, re_sub(TRUE, self, text, 1), 1)

non_expand_vars == <<alias_vars, var_vars, fn_vars, log, path_vars, proc_vars, err, since_empty>>

vm_side == <<env, local_scopes, last, marks, last_code, q_written>>

set_variable ==
    /\ expand_call = NoCall
    /\ \E name \in ExpNames, value \in ExpValues, local \in BOOLEAN :
           BecomesCtx(CommandContext_set_variable(ctx, name, value, local))
    /\ UNCHANGED <<vm_side, non_var_vars>>

push_local_scope ==
    /\ expand_call = NoCall
    /\ Len(ctx_scopes) < MaxExpandScopes
    /\ BecomesCtx(CommandContext_push_local_scope(ctx))
    /\ UNCHANGED <<vm_side, non_var_vars>>

pop_local_scope ==
    /\ expand_call = NoCall
    /\ BecomesCtx(CommandContext_pop_local_scope(ctx))
    /\ UNCHANGED <<vm_side, non_var_vars>>

expand_variables ==
    /\ expand_call = NoCall
    /\ \E text \in TextsUpTo(MaxTextLen) :
           expand_call' = [op |-> "expand_variables", text |-> text,
                           ret |-> CommandContext_expand_variables(ctx, text)]
    /\ UNCHANGED non_expand_vars

\* the caller takes the result
expand_variables_done ==
    /\ expand_call # NoCall
    /\ expand_call' = NoCall
    /\ UNCHANGED non_expand_vars

ExpandInit ==
    /\ AliasIdle
    /\ VarsIdle
    /\ FuncsIdle
    /\ LogIdle
    /\ PathIdle
    /\ ProcIdle
    /\ ErrIdle
    /\ ExpandIdle
    /\ BaseIdle

ExpandNext ==
    \/ set_variable
    \/ push_local_scope
    \/ pop_local_scope
    \/ expand_variables
    \/ expand_variables_done

SpecExpand == ExpandInit /\ [][ExpandNext]_vars

-----------------------------------------------------------------------------
(* Properties of expand_variables *)

Expanded == expand_call # NoCall

\* the value of name through the scoped lookup, as characters; nothing when undefined
ScopedChars(name) ==
    IF HeldBy(ctx_scopes, name) # {} THEN CharsOf[ctx_scopes[Innermost(ctx_scopes, name)][name]]
    ELSE IF name \in DOMAIN ctx_env THEN CharsOf[ctx_env[name]]
    ELSE << >>

\* text with each ${NAME} and $NAME reference, found from left to right,
\* replaced by the value of NAME, and everything else kept
RECURSIVE Substituted(_, _)
Substituted(text, i) ==
    IF i > Len(text) THEN << >>
    ELSE LET ref == IF MatchBraced(text, i).matched THEN MatchBraced(text, i) ELSE MatchSimple(text, i)
         IN  IF ref.matched THEN ScopedChars(Join(ref.group1)) \o Substituted(text, ref.end)
             ELSE <<text[i]>> \o Substituted(text, i + 1)

\* C21: expand_variables replaces every $NAME and ${NAME} reference by the
\* value the scoped lookup finds (the empty string when undefined) and
\* leaves all other text unchanged.
C21_ExpandSubstitutes == Expanded => expand_call.ret = Substituted(expand_call.text, 1)

\* the texts that are exactly one reference to name
RefsTo(name) ==
    {text \in TextsUpTo(MaxTextLen) \ {<< >>} :
        \/ MatchBraced(text, 1) = [matched |-> TRUE, group1 |-> SubSeq(text, 3, Len(text) - 1), end |-> Len(text) + 1]
              /\ Join(SubSeq(text, 3, Len(text) - 1)) = name
        \/ MatchSimple(text, 1) = [matched |-> TRUE, group1 |-> Tail(text), end |-> Len(text) + 1]
              /\ Join(Tail(text)) = name}

\* C30: substituted text is not scanned again: the expansion of a single
\* reference $NAME or ${NAME} is the value of NAME, character for character.
C30_SinglePass ==
    \A name \in ExpNames :
        (Expanded /\ expand_call.text \in RefsTo(name)) => expand_call.ret = ScopedChars(name)


-----------------------------------------------------------------------------
(* translate_agfs_error *)

MaxChunks == 3      \* an error message is made of at most MaxChunks chunks

\* An error message is a sequence of words; str(error) joins them with
\* spaces.  The messages are built from the phrases the rules look for and
\* from words that match no rule.
Chunks ==
    {<<"not", "found">>, <<"404">>, <<"permission", "denied">>, <<"403">>,
     <<"is", "a", "directory">>, <<"not", "a", "directory">>, <<"already", "exists">>,
     <<"file", "exists">>, <<"not", "empty">>, <<"connection", "refused">>,
     <<"cannot", "connect">>, <<"Permission", "Denied">>, <<"Not", "Found">>,
     <<"x">>, <<"not">>, <<"directory">>}

RECURSIVE Flatten(_)
Flatten(chunks) == IF chunks = << >> THEN << >> ELSE Head(chunks) \o Flatten(Tail(chunks))

ErrorMessages == {Flatten(cs) : cs \in UNION {[1..k -> Chunks] : k \in 0..MaxChunks}}

TranslatePaths == {None, "", "/f"}

\* str.lower, word by word
lower(words) ==
    [i \in 1..Len(words) |->
        CASE words[i] = "Permission" -> "permission"
          [] words[i] = "Denied" -> "denied"
          [] words[i] = "Not" -> "not"
          [] words[i] = "Found" -> "found"
          [] OTHER -> words[i]]

\* phrase in words
in(phrase, words) ==
    \E i \in 0..(Len(words) - Len(phrase)) : SubSeq(words, i + 1, i + Len(phrase)) = phrase

\* str(error)
RECURSIVE Exception_str(_)
Exception_str(words) ==
    IF words = << >> THEN ""
    ELSE IF Len(words) = 1 THEN words[1]
    ELSE words[1] \o " " \o Exception_str(Tail(words))

\* the arguments of a constructor call that gives only the subject and the text
Positional(subject, text) ==
    [subject |-> subject, text |-> text, message |-> None, operation |-> None,
     details |-> None, timeout |-> Nothing, exit_code |-> Nothing]

\* a faulty variant: the permission rule is tried before the not-found rule
TranslatePermissionFirst(error, path) ==
    LET error_str == lower(error)
        path_or_unknown == IF path = None \/ path = "" THEN "unknown" ELSE path
        specific(cls) == new_error(cls, Positional(path_or_unknown, ""))
    IN  IF in(<<"permission", "denied">>, error_str) \/ in(<<"403">>, error_str)
            THEN specific("PermissionDeniedError")
        ELSE IF in(<<"not", "found">>, error_str) \/ in(<<"404">>, error_str)
            THEN specific("FileNotFoundError")
        ELSE IF in(<<"is", "a", "directory">>, error_str) THEN specific("IsADirectoryError")
        ELSE IF in(<<"not", "a", "directory">>, error_str) THEN specific("NotADirectoryError")
        ELSE IF in(<<"already", "exists">>, error_str) \/ in(<<"file", "exists">>, error_str)
            THEN specific("FileExistsError")
        ELSE IF in(<<"not", "empty">>, error_str) THEN specific("DirectoryNotEmptyError")
        ELSE IF in(<<"connection", "refused">>, error_str) \/ in(<<"cannot", "connect">>, error_str)
            THEN new_error("FileSystemConnectionError", Positional("unknown", ""))
        ELSE new_error("FileSystemError", Positional(path, Exception_str(error)))

translate_agfs_error(error, path) ==
    LET error_str == lower(error)
        path_or_unknown == IF path = None \/ path = "" THEN "unknown" ELSE path
        specific(cls) == new_error(cls, Positional(path_or_unknown, ""))
    IN  IF in(<<"not", "found">>, error_str) \/ in(<<"404">>, error_str)
            THEN specific("FileNotFoundError")
        ELSE IF in(<<"permission", "denied">>, error_str) \/ in(<<"403">>, error_str)
            THEN specific("PermissionDeniedError")
        ELSE IF in(<<"is", "a", "directory">>, error_str) THEN specific("IsADirectoryError")
        ELSE IF in(<<"not", "a", "directory">>, error_str) THEN specific("NotADirectoryError")
        ELSE IF in(<<"already", "exists">>, error_str) \/ in(<<"file", "exists">>, error_str)
            THEN specific("FileExistsError")
        ELSE IF in(<<"not", "empty">>, error_str) THEN specific("DirectoryNotEmptyError")
        ELSE IF in(<<"connection", "refused">>, error_str) \/ in(<<"cannot", "connect">>, error_str)
            THEN new_error("FileSystemConnectionError", Positional("unknown", ""))
        ELSE new_error("FileSystemError", Positional(path, Exception_str(error)))

\* raise translate_agfs_error(e, path), where an AGFS client call has failed
translate ==
    /\ err = NoCall
    /\ \E error \in ErrorMessages, path \in TranslatePaths :
           err' = [op |-> "translate_agfs_error", error |-> error, path |-> path,
                   ret |-> translate_agfs_error(error, path)]
    /\ UNCHANGED non_err_vars

\* the translated error is handled
handled ==
    /\ err # NoCall
    /\ err' = NoCall
    /\ UNCHANGED non_err_vars

TranslateNext ==
    \/ translate
    \/ handled

SpecTranslate == ErrInit /\ [][TranslateNext]_vars

-----------------------------------------------------------------------------
(* Properties of translate_agfs_error *)

Translated == err # NoCall

\* the rules in the documented order: the kind and the phrases that select it
TranslationRules ==
    << [kind |-> "FileNotFoundError", phrases |-> {<<"not", "found">>, <<"404">>}],
       [kind |-> "PermissionDeniedError", phrases |-> {<<"permission", "denied">>, <<"403">>}],
       [kind |-> "IsADirectoryError", phrases |-> {<<"is", "a", "directory">>}],
       [kind |-> "NotADirectoryError", phrases |-> {<<"not", "a", "directory">>}],
       [kind |-> "FileExistsError", phrases |-> {<<"already", "exists">>, <<"file", "exists">>}],
       [kind |-> "DirectoryNotEmptyError", phrases |-> {<<"not", "empty">>}],
       [kind |-> "FileSystemConnectionError",
        phrases |-> {<<"connection", "refused">>, <<"cannot", "connect">>}] >>

Matching(words) ==
    {r \in DOMAIN TranslationRules : \E ph \in TranslationRules[r].phrases : in(ph, lower(words))}

FirstMatching(words) == CHOOSE r \in Matching(words) : \A q \in Matching(words) : r <= q

\* C22: translate_agfs_error returns, for every message, an error with exit
\* code 1 whose kind is that of the first rule, in the documented order, that
\* matches the lower-cased message; a message matching no rule gives a
\* generic FileSystemError carrying the original message and the path.
C22_TranslateFirstRule ==
    Translated =>
        /\ err.ret.exit_code = 1
        /\ IF Matching(err.error) # {}
           THEN err.ret.cls = TranslationRules[FirstMatching(err.error)].kind
           ELSE /\ err.ret.cls = "FileSystemError"
                /\ err.ret.message = Exception_str(err.error)
                /\ err.ret.path = err.path

C22_Witness ==
    /\ Translated
    /\ err.error = <<"Permission", "Denied", "not", "a", "directory", "404">>
    /\ err.path = "/f"
    /\ err.ret.cls = "FileNotFoundError"
    /\ err.ret.message = "/f: No such file or directory"
    /\ err.ret.exit_code = 1


-----------------------------------------------------------------------------
(* The builtins return and unset *)

MaxArgLen == 2      \* longest argument of return

\* exit_codes.EXIT_CODE_RETURN: a code that no command returns as its status
EXIT_CODE_RETURN == -1002

\* An argument of return is a sequence of characters: "1" stands for the
\* digits, "x" for every character that int() rejects.
ArgChars == {"1", "-", "+", " ", "x"}

ReturnArgLists ==
    LET arg == UNION {[1..k -> ArgChars] : k \in 0..MaxArgLen}
    IN  {<< >>} \cup {<<a>> : a \in arg} \cup {<<a, <<"x">>>> : a \in arg}

UnsetArgLists == UNION {[1..k -> ExpNames \cup {"b"}] : k \in 0..2}

\* str.strip
RECURSIVE rstrip(_)
rstrip(s) == IF s # << >> /\ s[Len(s)] = " " THEN rstrip(SubSeq(s, 1, Len(s) - 1)) ELSE s

RECURSIVE lstrip_space(_)
lstrip_space(s) == IF s # << >> /\ s[1] = " " THEN lstrip_space(Tail(s)) ELSE s

\* the digits of the literal int() is given, without blanks and sign
Digits(s) ==
    LET t == rstrip(lstrip_space(s))
    IN  IF t # << >> /\ t[1] \in {"-", "+"} THEN Tail(t) ELSE t

\* int(s) does not raise ValueError
IsIntLiteral(s) == Digits(s) # << >> /\ \A i \in 1..Len(Digits(s)) : Digits(s)[i] = "1"

RECURSIVE DecimalValue(_)
DecimalValue(digits) ==
    IF digits = << >> THEN 0 ELSE 10 * DecimalValue(SubSeq(digits, 1, Len(digits) - 1)) + 1

\* int(s)
int(s) ==
    LET t == rstrip(lstrip_space(s))
    IN  IF t[1] = "-" THEN 0 - DecimalValue(Digits(s)) ELSE DecimalValue(Digits(s))

\* a faulty variant: the value is recorded before the argument is parsed
ReturnRecordsUnparsed(process) ==
    IF process.args # << >> /\ ~IsIntLiteral(process.args[1])
        THEN [process |-> [process EXCEPT !.env = DictSet(@, "_return_value", "0"),
                                          !.stderr = Append(@, "return: " \o Join(process.args[1])
                                                                   \o ": numeric argument required\n")],
              ret |-> 2]
    ELSE LET exit_code == IF process.args # << >> THEN int(process.args[1]) ELSE 0
         IN  [process |-> [process EXCEPT !.env = DictSet(@, "_return_value", str(exit_code))],
              ret |-> EXIT_CODE_RETURN]

\* cmd_return: the process afterwards (env is process.context.env) and the code returned
cmd_return(process) ==
    IF process.args # << >> /\ ~IsIntLiteral(process.args[1])
        THEN [process |-> [process EXCEPT !.stderr = Append(@, "return: " \o Join(process.args[1])
                                                                   \o ": numeric argument required\n")],
              ret |-> 2]
    ELSE LET exit_code == IF process.args # << >> THEN int(process.args[1]) ELSE 0
         IN  [process |-> [process EXCEPT !.env = DictSet(@, "_return_value", str(exit_code))],
              ret |-> EXIT_CODE_RETURN]

\* del process.context.env[var_name] for each of the names that env holds
RECURSIVE DeleteEach(_, _)
DeleteEach(d, names) ==
    IF names = << >> THEN d
    ELSE DeleteEach(IF Head(names) \in DOMAIN d THEN DictDel(d, Head(names)) ELSE d, Tail(names))

cmd_unset(process) ==
    IF process.args = << >>
        THEN [process |-> [process EXCEPT !.stderr = Append(@, "unset: missing variable name\n")],
              ret |-> 1]
    ELSE [process |-> [process EXCEPT !.env = DeleteEach(@, process.args)], ret |-> 0]

\* Process(command, args, context=ctx): the part of it a builtin works on
BuiltinProcess(command, args) ==
    [command |-> command, args |-> args, env |-> ctx_env, stderr |-> << >>]

non_builtin_vars == <<alias_vars, fn_vars, log, path_vars, err, expand_call, since_empty>>

\* a process is made for the command line and the builtin runs in it
Run(command, args, result) ==
    /\ proc_call = NoCall
    /\ ctx_env' = result.process.env
    /\ proc' = DictUpdate(Process_init(command, TRUE),
                          [args |-> args, stderr |-> result.process.stderr])
    /\ proc_call' = [op |-> command, args |-> args, before |-> ctx,
                     after |-> [env |-> result.process.env, local_scopes |-> ctx_scopes],
                     stderr |-> result.process.stderr, ret |-> result.ret]
    /\ UNCHANGED <<ctx_scopes, vm_side, non_builtin_vars>>

run_return ==
    \E args \in ReturnArgLists : Run("return", args, cmd_return(BuiltinProcess("return", args)))

run_unset ==
    \E args \in UnsetArgLists : Run("unset", args, cmd_unset(BuiltinProcess("unset", args)))

\* the shell has taken the code and the process is dropped
builtin_done ==
    /\ proc_call # NoCall
    /\ proc' = Process_init("c", FALSE)
    /\ proc_call' = NoCall
    /\ UNCHANGED non_proc_vars

BuiltinsNext ==
    \/ proc_call = NoCall /\ set_variable
    \/ proc_call = NoCall /\ push_local_scope
    \/ proc_call = NoCall /\ pop_local_scope
    \/ run_return
    \/ run_unset
    \/ builtin_done

SpecBuiltins == ExpandInit /\ [][BuiltinsNext]_vars

-----------------------------------------------------------------------------
(* Properties of the builtins *)

ReturnValueOf(e) == IF "_return_value" \in DOMAIN e THEN Some(e["_return_value"]) ELSE Nothing

\* C23: return with no argument records "0", with an integer argument n
\* records str(n), in env["_return_value"], and returns the return-signal
\* code; with a non-integer argument it writes a "numeric argument required"
\* message, returns 2 and leaves env["_return_value"] as it was.
C23_ReturnRecordsValue ==
    proc_call.op = "return" =>
        LET args == proc_call.args
        IN  IF args = << >>
                THEN /\ ReturnValueOf(proc_call.after.env) = Some("0")
                     /\ proc_call.ret = EXIT_CODE_RETURN
                     /\ proc_call.stderr = << >>
            ELSE IF IsIntLiteral(args[1])
                THEN /\ ReturnValueOf(proc_call.after.env) = Some(str(int(args[1])))
                     /\ proc_call.ret = EXIT_CODE_RETURN
                     /\ proc_call.stderr = << >>
            ELSE /\ proc_call.after.env = proc_call.before.env
                 /\ proc_call.ret = 2
                 /\ proc_call.stderr =
                        <<"return: " \o Join(args[1]) \o ": numeric argument required\n">>

C23_Witness ==
    /\ proc_call.op = "return"
    /\ proc_call.args = << <<"-", "1">> >>
    /\ ReturnValueOf(proc_call.before.env) = Some("11")
    /\ ReturnValueOf(proc_call.after.env) = Some("-1")
    /\ proc_call.ret = EXIT_CODE_RETURN

\* C29: after unset has run for a name, get_variable of that name gives
\* None, also when the name is declared in a local scope; unset returns 1
\* when it has no arguments and 0 otherwise.
C29_UnsetHides ==
    proc_call.op = "unset" =>
        /\ \A i \in 1..Len(proc_call.args) :
               CommandContext_get_variable(proc_call.after, proc_call.args[i]) = None
        /\ proc_call.ret = IF proc_call.args = << >> THEN 1 ELSE 0


-----------------------------------------------------------------------------
(* Further properties of VariableManager *)

InFunction == Truthy(env, "_function_depth")

\* C24: inside a function, set(name, value) without local=True on a name
\* that a local scope on the stack declares makes get(name) return value and
\* neither creates nor changes env[name].
C24_SetInFunctionStaysLocal ==
    \A v \in Values :
        (InFunction /\ HeldBy(local_scopes, "x") # {}) =>
            LET after == VariableManager_set(vm, "x", v, FALSE)
            IN  /\ VariableManager_get(after, "x", None) = v
                /\ ("x" \in DOMAIN after.env) = ("x" \in DOMAIN env)
                /\ "x" \in DOMAIN env => after.env["x"] = env["x"]

\* C25: in every reachable state, get_all_variables()[n] is get(n) for
\* every name n that env or a local scope holds.
C25_GetAllAgreesWithGet ==
    LET all == VariableManager_get_all_variables(vm).ret
    IN  \A n \in DOMAIN all : all[n] = VariableManager_get(vm, n, None)


-----------------------------------------------------------------------------
(* VariableManager.clear_local_scopes, and what local declarations leave in env *)

VariableManager_clear_local_scopes(self) ==
    LET declared == UNION {DOMAIN self.local_scopes[i] : i \in 1..Len(self.local_scopes)}
    IN  [env |-> [k \in (DOMAIN self.env) \ {LocalKey(v) : v \in declared} |-> self.env[k]],
         local_scopes |-> << >>]

non_tracked_vars == <<alias_vars, fn_vars, log, path_vars, proc_vars, err, expand_call>>

\* The manager becomes new.  While the stack is empty since_empty follows
\* env; otherwise it keeps the env of that time, whether every call since
\* was a push, a pop, a clear or a set into a local scope, and the "_local_"
\* keys that such sets wrote.
Tracked(new, local_only, written) ==
    /\ BecomesVm(new)
    /\ since_empty' = IF new.local_scopes = << >>
                      THEN [env |-> new.env, clean |-> TRUE, written |-> {}]
                      ELSE [env |-> since_empty.env, clean |-> since_empty.clean /\ local_only,
                            written |-> written]
    /\ UNCHANGED <<ctx_env, ctx_scopes, last, marks, last_code, q_written, non_tracked_vars>>

tracked_set ==
    \E n \in FrameNames, v \in Values, local \in BOOLEAN :
        LET into_scope == local /\ local_scopes # << >>
        IN  Tracked(VariableManager_set(vm, n, v, local), into_scope,
                    IF into_scope THEN since_empty.written \cup {LocalKey(n)}
                    ELSE since_empty.written \ {n})

tracked_push ==
    /\ Len(local_scopes) < MaxScopes
    /\ Tracked(VariableManager_push_scope(vm), TRUE, since_empty.written)

tracked_pop ==
    /\ local_scopes # << >>
    /\ Tracked(VariableManager_pop_scope(vm).self, TRUE, since_empty.written)

tracked_clear == Tracked(VariableManager_clear_local_scopes(vm), TRUE, since_empty.written)

ResidueNext ==
    \/ tracked_set
    \/ tracked_push
    \/ tracked_pop
    \/ tracked_clear

SpecResidue == VarsInit /\ [][ResidueNext]_vars

\* the scope stack becomes empty in this step
BecomesEmpty == local_scopes # << >> /\ local_scopes' = << >>

\* C26: when the scope stack becomes empty through pop_scope or
\* clear_local_scopes, env holds no "_local_<name>" key that a set with
\* local=True wrote, and if only local sets were made since the stack was
\* last empty, env is what it was then.
C26_NoResidue ==
    [][BecomesEmpty =>
           /\ \A k \in since_empty.written : k \notin DOMAIN env'
           /\ since_empty.clean => env' = since_empty.env]_vars

\* the part of C26 about the keys that local sets wrote
C26_NoShadowKeyLeft ==
    [][BecomesEmpty => \A k \in since_empty.written : k \notin DOMAIN env']_vars


-----------------------------------------------------------------------------
(* VariableManager and CommandContext side by side *)

SameNames == {"x", "?"}

\* VariableManager(initial_env) and CommandContext(env=initial_env)
SameInit ==
    /\ AliasIdle
    /\ FuncsIdle
    /\ LogIdle
    /\ PathIdle
    /\ ProcIdle
    /\ ErrIdle
    /\ ExpandIdle
    /\ \E initial_env \in InitialEnvs :
           /\ env = VariableManager_init(initial_env)
           /\ ctx_env = initial_env
    /\ local_scopes = << >>
    /\ ctx_scopes = << >>
    /\ last = NoOutcome
    /\ marks = << >>
    /\ last_code = 0
    /\ q_written = FALSE
    /\ BaseIdle

SameNext ==
    \/ VarSet(SameNames)
    \/ VarPush(SameNames)
    \/ VarPop

SpecSame == SameInit /\ [][SameNext]_vars

\* CommandContext's None read as the empty string
OrEmpty(value) == IF value = None THEN "" ELSE value

SameValue(n) == VariableManager_get(vm, n, None) = OrEmpty(CommandContext_get_variable(ctx, n))

\* C27 as claimed: after every sequence of push, set and pop calls made on
\* both objects, get(n) and get_variable(n) agree for every name n.
C27_SameSemantics == \A n \in SameNames \cup {"HISTFILE", "y"} : SameValue(n)

\* C27 amended: they agree for every name but "?" and "HISTFILE", which the
\* constructor of VariableManager sets and that of CommandContext does not.
C27_SameButInitialised == \A n \in (SameNames \cup {"HISTFILE", "y"}) \ {"?", "HISTFILE"} : SameValue(n)

C27_Witness ==
    /\ Len(local_scopes) = 2
    /\ Len(ctx_scopes) = 2
    /\ "x" \in DOMAIN ctx_env
    /\ "x" \in DOMAIN ctx_scopes[1]
    /\ "x" \notin DOMAIN ctx_scopes[2]
    /\ ctx_env["x"] # ctx_scopes[1]["x"]
    /\ VariableManager_get(vm, "x", None) = ctx_scopes[1]["x"]
    /\ CommandContext_get_variable(ctx, "x") = ctx_scopes[1]["x"]


-----------------------------------------------------------------------------
(* Idempotence of AliasRegistry.expand *)

\* no alias leads back to itself by following first words
Acyclic == \A n \in DOMAIN _aliases : ~Chain(n).cyclic

\* every alias chain of the registry has fewer than max_depth aliases
ChainsShorterThan(max_depth) == \A n \in DOMAIN _aliases : Len(Chain(n).names) < max_depth

\* no alias stands for the empty string or for whitespace alone
NoBlankExpansion == \A n \in DOMAIN _aliases : ~IsBlank(_aliases[n])

\* the recorded recursive expand is a fixed point: expanding its result again
\* returns the same string, and the result does not start with an alias
FullyExpanded ==
    LET out == alias_call.ret.out
    IN  /\ AliasRegistry_expand(out, TRUE, alias_call.max_depth).out = out
        /\ ~StartsWithAlias(out)

\* C28: in a registry whose alias graph is acyclic and whose chains are
\* shorter than max_depth, recursive expand is idempotent,
\* expand(expand(c)) = expand(c) for every command c, and the first word of
\* the expanded command is no defined alias.
C28_ExpandIdempotent ==
    (Returning /\ alias_call.recursive /\ Acyclic /\ ChainsShorterThan(alias_call.max_depth)) =>
        FullyExpanded

\* C28, where it does hold: the same when no alias has a blank expansion
C28_IdempotentWithoutBlanks ==
    (Returning /\ alias_call.recursive /\ Acyclic /\ ChainsShorterThan(alias_call.max_depth)
        /\ NoBlankExpansion) =>
        FullyExpanded

\* C28, second part: a call of expand leaves the registry as it was
C28_ExpandKeepsRegistry ==
    [][(alias_call = NoCall /\ alias_call' # NoCall) => _aliases' = _aliases]_vars

====
